---------------------------- MODULE Spec2Model ----------------------------
(***************************************************************************)
(* American Monte Carlo multi-leg engine (QuantExt McMultiLegBaseEngine):  *)
(* the forward replay calculator MultiLegBaseAmcCalculator::simulatePath   *)
(* and the parts of McMultiLegBaseEngine::calculate / createCashflowInfo   *)
(* the verified statements are about.                                      *)
(*                                                                         *)
(* Conventions.  A RandomVariable / Filter is a function over Samples.     *)
(* There is one external model index, so a "state" at a time is one        *)
(* RandomVariable.  Times of the replay calculator are integers.  The      *)
(* regression basis is {1, x}; a coefficient vector is a pair <<c0, c1>>.  *)
(* A regressor that was linearly interpolated is carried as numerator and  *)
(* positive denominator, and a conditional expectation is returned times   *)
(* that denominator: comparisons between two such values, and with zero,   *)
(* are unchanged by the scaling.                                           *)
(***************************************************************************)
EXTENDS Integers, Sequences, FiniteSets, TLC

(* ------------------------------- bounds ------------------------------- *)

\* replay calculator times are drawn from 1..MaxTime
MaxTime == 3
\* at most MaxXva valuation (xva) times per calculator
MaxXva == 2
\* externally supplied states are drawn from -MaxState..MaxState
MaxState == 1
\* number of Monte Carlo paths of one replay call
NumSamples == 1

\* dates are days after the reference date today_, drawn from 0..MaxDay
MaxDay == 3
\* at most MaxLegs legs, each with at most MaxFlows cash flows
MaxLegs == 2
MaxFlows == 1
\* at most MaxDates exercise dates and at most MaxSimDates simulation dates
MaxDates == 2
MaxSimDates == 1
\* number of calibration paths
NumCalSamples == 2

Samples == 1..NumSamples
CalSamples == 1..NumCalSamples
StateVals == (0 - MaxState)..MaxState
Times == 1..MaxTime

\* the polynomials the calibrated coefficient tables are built from
Polys == << <<0, 1>>, <<1, -1>>, <<-1, 0>> >>
NumPolys == Len(Polys)
Seeds == 0..(NumPolys - 1)

(* ------------------------------ variables ------------------------------ *)

\* exercise_: a null pointer, or an exercise with its dates
NoExercise == [isNull |-> TRUE, dates |-> {}]
ExerciseOn(dates) == [isNull |-> FALSE, dates |-> dates]

\* calculate() has generated no path and walked no time
NoWalk == [paths |-> << >>, steps |-> << >>, cfStatus |-> << >>, evaluations |-> << >>,
           pathValueUndDirty |-> << >>, lookups |-> {}]

\* createCashflowInfo has not been called on its own, no amount function evaluated
NoFlow == [kind |-> "none"]
NoInfo == [error |-> "none"]
NoEvaluation == [error |-> "none"]

\* the day of the month of the reference date the replay and the calls of
\* createCashflowInfo on its own are set on
ReferenceDay == 29

VARIABLES
    \* MultiLegBaseAmcCalculator members
    settlement_,              \* "Cash" or "Physical"
    exerciseXvaTimes_,        \* std::set<Real>
    exerciseTimes_,           \* std::set<Real>
    xvaTimes_,                \* std::set<Real>
    coeffsUndDirty_,          \* std::vector<Array>, by rank in exerciseXvaTimes_
    coeffsUndExInto_,
    coeffsContinuationValue_,
    coeffsOption_,
    resultValue_,             \* reference date npv
    initialState_,            \* model state at time 0
    exercised_,               \* std::vector<Filter>, C++ index k is exercised_[k+1]
    \* the last simulatePath call: its arguments and its outcome
    call,                     \* [sticky, effPaths, status, error]
    result,                   \* the returned vector, <<>> if none was returned
    \* an earlier run that was not sticky, remembered to compare later runs with
    remembered,               \* [effPaths, result, between], or NoRun
    \* McMultiLegBaseEngine: data set by derived engines, constructor arguments
    leg_,                     \* std::vector<Leg>
    currency_,                \* std::vector<Currency>, as currency indices of the model
    payer_,                   \* std::vector<Real>
    exercise_,                \* the exercise dates, or NoExercise (nullptr)
    optionSettlement_,
    simulationDates_,
    dayCounter_,              \* the day counter of the model's term structure
    referenceDay,             \* the day of the month of its reference date
    \* McMultiLegBaseEngine: what calculate() produced
    cashflowInfo,             \* the descriptors createCashflowInfo returned
    resultUnderlyingNpv_,
    engine,                   \* "new", "done" or the error calculate() raised
    walk,                     \* locals of calculate(): the paths generated, the steps
                              \* of the backward walk, the final status of the flows
    \* one call of createCashflowInfo and one call of the amount function it returned
    cashflow,                 \* the cash flow handed over, or NoFlow
    descriptor,               \* the CashflowInfo returned, or NoInfo
    evaluation                \* [states, num, den, reads, error], or NoEvaluation

calcVars == << settlement_, exerciseXvaTimes_, exerciseTimes_, xvaTimes_, coeffsUndDirty_,
               coeffsUndExInto_, coeffsContinuationValue_, coeffsOption_, resultValue_,
               initialState_ >>

engineVars == << leg_, currency_, payer_, exercise_, optionSettlement_, simulationDates_,
                 dayCounter_, referenceDay, walk, cashflowInfo, resultUnderlyingNpv_,
                 engine >>

infoVars == << cashflow, descriptor, evaluation >>

vars == << calcVars, exercised_, call, result, remembered, engineVars, infoVars >>

NoRun == [effPaths |-> << >>, result |-> << >>, between |-> FALSE]

(* --------------------------- ordered sets ------------------------------ *)

SetMin(S) == CHOOSE x \in S : \A y \in S : x <= y
SetMax(S) == CHOOSE x \in S : \A y \in S : y <= x

\* std::distance(s.begin(), s.find(t)): the number of elements before t, or
\* s.size() when t is not an element
Rank(t, S) == IF t \in S THEN Cardinality({u \in S : u < t}) ELSE Cardinality(S)

\* the elements of an ordered set in iteration order
RECURSIVE SortedSeq(_)
SortedSeq(S) == IF S = {} THEN << >> ELSE << SetMin(S) >> \o SortedSeq(S \ {SetMin(S)})

(* ------------------------ random variable algebra ----------------------- *)

RV(x) == [p \in Samples |-> x]

\* conditionalExpectation(regressor, basisFns, coefficients) for the basis {1, x},
\* with the regressor num/den; the value returned is scaled by den
conditionalExpectation(num, den, coeffs) ==
    [p \in Samples |-> coeffs[1] * den + coeffs[2] * num[p]]

\* conditionalResult(f, x, y)
conditionalResult(f, x, y) == [p \in Samples |-> IF f[p] THEN x[p] ELSE y[p]]

\* applyInverseFilter(x, f): x where f is false, zero where f is true
applyInverseFilter(x, f) == [p \in Samples |-> IF f[p] THEN 0 ELSE x[p]]

\* max(x, y)
RvMax(x, y) == [p \in Samples |-> IF x[p] >= y[p] THEN x[p] ELSE y[p]]

FilterOr(f, g) == [p \in Samples |-> f[p] \/ g[p]]

(* ------------------ calibrated tables of the calculator ----------------- *)

\* a coefficient table over n grid times: the polynomial differs from rank to rank
CoeffTable(seed, n) == [k \in 1..n |-> Polys[((seed + k) % NumPolys) + 1]]


(* --------------- MultiLegBaseAmcCalculator::simulatePath ---------------- *)

\* the effective paths: the states at the times flagged relevant, in order
EffPaths(paths, isRelevantTime) ==
    LET flagged == {i \in 1..Len(paths) : isRelevantTime[i]}
    IN  [k \in 1..Cardinality(flagged) |->
            paths[CHOOSE i \in flagged : Cardinality({j \in flagged : j < i}) = k - 1]]

\* the flagged positions of a call, in increasing order
FlaggedSeq(isRelevantTime) == SortedSeq({i \in DOMAIN isRelevantTime : isRelevantTime[i]})

\* (variant) the path time at the flagged position itself in every run
SimTimesWithoutOffset(pathTimes, isRelevantTime, stickyCloseOutRun) ==
    LET flagged == FlaggedSeq(isRelevantTime)
    IN  [k \in DOMAIN flagged |-> pathTimes[flagged[k]]]

\* simTimes: for each flagged position i the path time at ind, which is i - 1 in
\* a sticky close-out run and i otherwise
SimTimes(pathTimes, isRelevantTime, stickyCloseOutRun) ==
    LET flagged == FlaggedSeq(isRelevantTime)
    IN  [k \in DOMAIN flagged |->
            pathTimes[IF stickyCloseOutRun THEN flagged[k] - 1 ELSE flagged[k]]]

\* (variant) exercise also where the exercise value ties with the continuation
\* value or with zero
ExerciseTriggeredOnTie(exerciseValue, continuationValue) ==
    exerciseValue >= continuationValue /\ exerciseValue >= 0

\* the exercise criterion on one path, the same in calibration and in replay:
\* exerciseValue > continuationValue && exerciseValue > 0
ExerciseTriggered(exerciseValue, continuationValue) ==
    exerciseValue > continuationValue /\ exerciseValue > 0

\* (variant) the decision without regard to the previous indicator
ExerciseDecisionIgnoringPrevious(prev, exerciseValue, continuationValue) ==
    [p \in Samples |-> exerciseValue[p] > continuationValue[p] /\ exerciseValue[p] > 0]

\* the exercise decision of one exercise time, given the indicator of the
\* previous exercise time (exercised_[counter])
ExerciseDecision(prev, exerciseValue, continuationValue) ==
    [p \in Samples |->
        ~prev[p] /\ ExerciseTriggered(exerciseValue[p], continuationValue[p])]

\* *t2 of std::lower_bound(xvaTimes_.begin(), xvaTimes_.end(), t)
time2(t) == SetMin({u \in xvaTimes_ : u >= t})

\* t2 == xvaTimes_.begin()
AtFirstValuationTime(t) == \A u \in xvaTimes_ : time2(t) <= u

\* the valuation time before time2, or 0.0 at the first valuation time
time1(t) == IF AtFirstValuationTime(t) THEN 0 ELSE SetMax({u \in xvaTimes_ : u < time2(t)})

\* the state interpolated to exercise time t between the valuation times
\* bracketing it, as numerator over the denominator time2 - time1
InterpolatedState(t, effPaths) ==
    LET s2 == effPaths[Rank(time2(t), xvaTimes_) + 1]
        s1 == IF AtFirstValuationTime(t) THEN RV(initialState_)
              ELSE effPaths[Rank(time1(t), xvaTimes_) + 1]
    IN  [num |-> [p \in Samples |-> (time2(t) - t) * s1[p] + (t - time1(t)) * s2[p]],
         den |-> time2(t) - time1(t)]

\* (variant) an exercise time after the last simulation time counts as exercised
LeftAtBreakExercised(ex, counter) == [ex EXCEPT ![counter + 2] = [p \in Samples |-> TRUE]]

\* the indicators when the loop breaks at an exercise time after the last
\* simulation time: those of this and of all later exercise times stay false
LeftAtBreak(ex, counter) == ex

\* the loop over the exercise times of a run that is not a sticky close-out run;
\* ex is the indicator vector being filled, counter counts the exercise times done
RECURSIVE ExerciseLoop(_, _, _, _)
ExerciseLoop(ts, counter, effPaths, ex) ==
    IF counter >= Len(ts) THEN ex
    ELSE LET t == ts[counter + 1]
         IN  IF {u \in xvaTimes_ : u >= t} = {}
             THEN LeftAtBreak(ex, counter)
             ELSE LET s   == InterpolatedState(t, effPaths)
                      ind == Rank(t, exerciseXvaTimes_)
                      exerciseValue ==
                          conditionalExpectation(s.num, s.den, coeffsUndExInto_[ind + 1])
                      continuationValue ==
                          conditionalExpectation(s.num, s.den, coeffsContinuationValue_[ind + 1])
                      new == ExerciseDecision(ex[counter + 1], exerciseValue, continuationValue)
                  IN  ExerciseLoop(ts, counter + 1, effPaths,
                                   [ex EXCEPT ![counter + 2] = new])

\* (variant) the indicators are determined in every run
RecomputesIndicatorsAlways(stickyCloseOutRun) == TRUE

\* the exercise indicators are determined except for a sticky run
RecomputesIndicators(stickyCloseOutRun) == ~stickyCloseOutRun

\* the indicators a run that is not sticky starts from
FreshIndicators == [k \in 1..(Cardinality(exerciseTimes_) + 1) |-> [p \in Samples |-> FALSE]]

\* (variant) the new indicators are added to the ones of the run before
DetermineExerciseAccumulating(effPaths, old) ==
    LET new == ExerciseLoop(SortedSeq(exerciseTimes_), 0, effPaths, FreshIndicators)
    IN  IF Len(old) = Len(new)
        THEN [k \in DOMAIN new |-> FilterOr(new[k], old[k])]
        ELSE new

\* exercised_ after a run that is not sticky
DetermineExercise(effPaths, old) ==
    ExerciseLoop(SortedSeq(exerciseTimes_), 0, effPaths, FreshIndicators)

\* (variant) exercise-into and dirty value the wrong way round
ExercisedValueSwapped(indicator, state, counter) ==
    conditionalResult(indicator,
                      conditionalExpectation(state, 1, coeffsUndDirty_[counter + 1]),
                      conditionalExpectation(state, 1, coeffsUndExInto_[counter + 1]))

\* the value on the exercised branch at a valuation time
ExercisedValue(indicator, state, counter) ==
    conditionalResult(indicator,
                      conditionalExpectation(state, 1, coeffsUndExInto_[counter + 1]),
                      conditionalExpectation(state, 1, coeffsUndDirty_[counter + 1]))

\* (variant) every settlement is treated as cash settlement
AlwaysCashSettlement == TRUE

\* settlement_ == Settlement::Type::Cash
IsCashSettlement == settlement_ = "Cash"

\* (variant) the exercised value counts on every valuation time
CashSettledWithoutMask(exercisedValue, accountedFor) == exercisedValue

\* cash settlement: the exercised value counts on one valuation time only
CashSettled(exercisedValue, accountedFor) ==
    IF IsCashSettlement
    THEN applyInverseFilter(exercisedValue, accountedFor)
    ELSE exercisedValue

\* (variant) the result entry without the floor at zero
ResultEntryWithoutFloor(wasExercised, exercisedValue, optionValue) ==
    conditionalResult(wasExercised, exercisedValue, optionValue)

\* the result entry of a valuation time
ResultEntry(wasExercised, exercisedValue, optionValue) ==
    RvMax(RV(0), conditionalResult(wasExercised, exercisedValue, optionValue))

\* (variant) a path counts as exercised only while its latest indicator is true
WasExercisedAtLatestOnly(wasExercised, indicator) == indicator

\* wasExercised after an exercise time: wasExercised || exercised_[exerciseCounter]
WasExercisedAfter(wasExercised, indicator) == FilterOr(wasExercised, indicator)

\* the loop over exerciseXvaTimes_ that populates the result; a is the record of
\* the loop's locals, a.res the entries for the valuation times so far
RECURSIVE ResultLoop(_, _, _, _)
ResultLoop(ts, effPaths, ex, a) ==
    IF a.counter >= Len(ts) THEN a.res
    ELSE LET t == ts[a.counter + 1]
             isEx == t \in exerciseTimes_
             exerciseCounter == IF isEx THEN a.exerciseCounter + 1 ELSE a.exerciseCounter
             wasExercised ==
                 IF isEx THEN WasExercisedAfter(a.wasExercised, ex[exerciseCounter + 1])
                 ELSE a.wasExercised
         IN  IF t \in xvaTimes_
             THEN LET state == effPaths[a.xvaCounter + 1]
                      optionValue ==
                          conditionalExpectation(state, 1, coeffsOption_[a.counter + 1])
                      exercisedValue ==
                          CashSettled(ExercisedValue(ex[exerciseCounter + 1], state, a.counter),
                                      a.accountedFor)
                      accountedFor ==
                          IF IsCashSettlement
                          THEN FilterOr(a.accountedFor, wasExercised)
                          ELSE a.accountedFor
                  IN  ResultLoop(ts, effPaths, ex,
                          [counter |-> a.counter + 1, xvaCounter |-> a.xvaCounter + 1,
                           exerciseCounter |-> exerciseCounter,
                           accountedFor |-> accountedFor, wasExercised |-> wasExercised,
                           res |-> Append(a.res,
                                     ResultEntry(wasExercised, exercisedValue, optionValue))])
             ELSE ResultLoop(ts, effPaths, ex,
                          [a EXCEPT !.counter = a.counter + 1,
                                    !.exerciseCounter = exerciseCounter,
                                    !.wasExercised = wasExercised])

\* (variant) the vector holds the entries of the valuation times only
PopulateResultWithoutReferenceValue(effPaths, ex) ==
    ResultLoop(SortedSeq(exerciseXvaTimes_), effPaths, ex,
               [counter |-> 0, xvaCounter |-> 0, exerciseCounter |-> 0,
                accountedFor |-> [p \in Samples |-> FALSE],
                wasExercised |-> [p \in Samples |-> FALSE],
                res |-> << >>])

\* the result of a calculator with exercise times, from the indicators ex
PopulateResult(effPaths, ex) ==
    << RV(resultValue_) >> \o
    ResultLoop(SortedSeq(exerciseXvaTimes_), effPaths, ex,
               [counter |-> 0, xvaCounter |-> 0, exerciseCounter |-> 0,
                accountedFor |-> [p \in Samples |-> FALSE],
                wasExercised |-> [p \in Samples |-> FALSE],
                res |-> << >>])

\* (variant) the dirty npv floored at zero
DirtyResultFloored(effPaths) ==
    << RV(resultValue_) >> \o
    [k \in 1..Cardinality(xvaTimes_) |->
        RvMax(RV(0), conditionalExpectation(effPaths[k], 1,
            coeffsUndDirty_[Rank(SortedSeq(xvaTimes_)[k], exerciseXvaTimes_) + 1]))]

\* the result of a calculator without exercise times: the dirty npv at all times
DirtyResult(effPaths) ==
    << RV(resultValue_) >> \o
    [k \in 1..Cardinality(xvaTimes_) |->
        conditionalExpectation(effPaths[k], 1,
            coeffsUndDirty_[Rank(SortedSeq(xvaTimes_)[k], exerciseXvaTimes_) + 1])]

\* what is recorded of a call: its arguments (the states only where the call
\* went on to read them) and its outcome
CallRecord(a, status, why, effPaths, simTimes, paths) ==
    [sticky |-> a.sticky, effPaths |-> effPaths, status |-> status, error |-> why,
     pathTimes |-> a.pathTimes, numPaths |-> a.numPaths,
     isRelevantTime |-> a.isRelevantTime, simTimes |-> simTimes, paths |-> paths]

\* no call is in progress and no returned vector is waiting for the caller
NoCall ==
    [sticky |-> FALSE, effPaths |-> << >>, status |-> "none", error |-> "",
     pathTimes |-> << >>, numPaths |-> 0, isRelevantTime |-> << >>,
     simTimes |-> << >>, paths |-> << >>]

\* outcomes of a call
Returns(a, paths, effPaths, res, ex) ==
    /\ call' = CallRecord(a, "ok", "", effPaths,
                          SimTimes(a.pathTimes, a.isRelevantTime, a.sticky), paths)
    /\ result' = res
    /\ exercised_' = ex

Fails(a, why) ==
    /\ call' = CallRecord(a, "error", why, << >>, << >>, << >>)
    /\ result' = << >>
    /\ UNCHANGED exercised_

\* undefined behaviour: the process dies, or the call carries on with what it read
Crashes(a, why) ==
    /\ call' = CallRecord(a, "ub", why, << >>, << >>, << >>)
    /\ result' = << >>
    /\ UNCHANGED exercised_

ReadsGarbage(a, paths, effPaths, res) ==
    /\ call' = CallRecord(a, "ub", "indicator index out of range", effPaths,
                          SimTimes(a.pathTimes, a.isRelevantTime, a.sticky), paths)
    /\ result' = res
    /\ UNCHANGED exercised_

AllIndicators == [1..(Cardinality(exerciseTimes_) + 1) -> [Samples -> BOOLEAN]]

\* the exercise times before which the loop over the exercise times does not break
ExerciseTimesReached ==
    {t \in exerciseTimes_ :
        \A u \in exerciseTimes_ : u < t => \E x \in xvaTimes_ : x >= u}

\* the exercise times the loop reaches and does not find in exerciseXvaTimes_
ExerciseTimesNotFound == ExerciseTimesReached \ exerciseXvaTimes_

\* the QL_REQUIRE on an exercise time fails after exercised_ was reset and the
\* indicators of the exercise times before it were determined
FailsAfterReset(a, why, effPaths) ==
    /\ call' = CallRecord(a, "error", why, << >>, << >>, << >>)
    /\ result' = << >>
    /\ exercised_' =
           ExerciseLoop(SortedSeq({u \in exerciseTimes_ : u < SetMin(ExerciseTimesNotFound)}),
                        0, effPaths, FreshIndicators)

\* (variant) a sticky run starts from indicators that are all false
SavedIndicatorsCleared == FreshIndicators

\* the last saved indicators, which a sticky run reuses
SavedIndicators == exercised_

SimulatePath(pathTimes, paths, isRelevantTime, stickyCloseOutRun) ==
    LET nFlagged == Cardinality({i \in 1..Len(pathTimes) : isRelevantTime[i]})
        effPaths == EffPaths(paths, isRelevantTime)
        a == [sticky |-> stickyCloseOutRun, pathTimes |-> pathTimes,
              numPaths |-> Len(paths), isRelevantTime |-> isRelevantTime]
    IN
    /\ UNCHANGED << calcVars, engineVars, infoVars >>
    /\ IF paths = << >>
       THEN Fails(a, "no future path times")
       ELSE IF Len(pathTimes) # Len(paths)
       THEN Fails(a, "inconsistent pathTimes size")
       ELSE IF stickyCloseOutRun /\ isRelevantTime[1]
       THEN Fails(a, "sticky close out run time index is negative")
       ELSE IF nFlagged > Cardinality(xvaTimes_)
       THEN \* effPaths[timeIndex] is written past its end before the size check
            \/ Crashes(a, "effPaths index out of range")
            \/ Fails(a, "unexpected input path size")
       ELSE IF nFlagged # Cardinality(xvaTimes_)
       THEN Fails(a, "unexpected input path size")
       ELSE IF exerciseTimes_ = {}
       THEN IF xvaTimes_ \subseteq exerciseXvaTimes_
            THEN Returns(a, paths, effPaths, DirtyResult(effPaths), exercised_)
            ELSE Fails(a, "xva time not found in exerciseXvaTimes")
       ELSE IF RecomputesIndicators(stickyCloseOutRun)
       THEN IF ExerciseTimesNotFound # {}
            THEN FailsAfterReset(a, "exercise time not found in exerciseXvaTimes", effPaths)
            ELSE LET ex == DetermineExercise(effPaths, exercised_)
                 IN  Returns(a, paths, effPaths, PopulateResult(effPaths, ex), ex)
       ELSE IF Len(exercised_) = Cardinality(exerciseTimes_) + 1
       THEN Returns(a, paths, effPaths, PopulateResult(effPaths, SavedIndicators), exercised_)
       ELSE \* no indicators were saved: exercised_[exerciseCounter] is out of range
            \/ Crashes(a, "indicator index out of range")
            \/ \E g \in AllIndicators :
                   ReadsGarbage(a, paths, effPaths, PopulateResult(effPaths, g))

(* ------------------------- the replay calculator ------------------------ *)

\* the ranks of a table that calibration fills
RanksOf(S, grid) == {Rank(t, grid) + 1 : t \in S}

\* a table filled at the given ranks, left empty elsewhere
FilledAt(table, ranks) == [k \in DOMAIN table |-> IF k \in ranks THEN table[k] ELSE << >>]

Init ==
    /\ settlement_ \in {"Cash", "Physical"}
    /\ exerciseTimes_ \in SUBSET Times
    /\ xvaTimes_ \in {X \in SUBSET Times : X # {} /\ Cardinality(X) <= MaxXva}
    /\ exerciseXvaTimes_ = exerciseTimes_ \cup xvaTimes_
    /\ \E s, sc \in Seeds :
        \* at each rank the dirty, exercise-into and option polynomials differ
        LET n == Cardinality(exerciseXvaTimes_)
            all == 1..n
        IN  /\ coeffsUndDirty_ =
                  FilledAt(CoeffTable(s, n), RanksOf(xvaTimes_, exerciseXvaTimes_))
            /\ coeffsUndExInto_ =
                  FilledAt(CoeffTable(s + 1, n), IF exerciseTimes_ = {} THEN {} ELSE all)
            /\ coeffsContinuationValue_ =
                  FilledAt(CoeffTable(sc, n), RanksOf(exerciseTimes_, exerciseXvaTimes_))
            /\ coeffsOption_ =
                  FilledAt(CoeffTable(s + 2, n), IF exerciseTimes_ = {} THEN {} ELSE all)
    /\ resultValue_ = 1
    /\ initialState_ = 0
    /\ exercised_ = << >>
    /\ call = NoCall
    /\ result = << >>
    /\ remembered = [effPaths |-> << >>, result |-> << >>, between |-> FALSE]
    \* the engine that built the calculator is not part of the replay
    /\ leg_ = << >> /\ currency_ = << >> /\ payer_ = << >>
    /\ exercise_ = NoExercise /\ optionSettlement_ = settlement_ /\ simulationDates_ = {}
    /\ dayCounter_ = "Actual365Fixed" /\ referenceDay = ReferenceDay
    /\ cashflowInfo = << >> /\ resultUnderlyingNpv_ = 0 /\ engine = "done"
    /\ walk = NoWalk
    /\ cashflow = NoFlow /\ descriptor = NoInfo /\ evaluation = NoEvaluation

\* the arguments of the calls: up to one path time more than valuation times
PathLens == 0..(Cardinality(xvaTimes_) + 1)

\* the states of a path: one per path time; the states at times not flagged are
\* never read by the calculator and are all drawn as the zero state
PathsFor(mask) ==
    {ps \in [DOMAIN mask -> [Samples -> StateVals]] :
        \A i \in DOMAIN mask : ~mask[i] => ps[i] = RV(0)}

\* a call whose path times and path states agree in number
ConsistentCall ==
    \E n \in PathLens, sticky \in BOOLEAN :
        \E mask \in [1..n -> BOOLEAN] :
            \E paths \in PathsFor(mask) :
                SimulatePath([i \in 1..n |-> i], paths, mask, sticky)

\* a call with one path time more than path states
InconsistentCall ==
    \E n \in PathLens, sticky \in BOOLEAN :
        SimulatePath([i \in 1..(n + 1) |-> i], [i \in 1..n |-> RV(0)],
                     [i \in 1..(n + 1) |-> FALSE], sticky)

\* the caller invokes simulatePath
Replay == call = NoCall /\ (ConsistentCall \/ InconsistentCall)

\* the caller takes what the call returned (or its error)
TakeResult ==
    /\ call # NoCall
    /\ call' = NoCall
    /\ result' = << >>
    /\ UNCHANGED << calcVars, exercised_, remembered, engineVars, infoVars >>

Next ==
    \/ Replay /\ UNCHANGED remembered
    \/ TakeResult

Spec == Init /\ [][Next]_vars

\* an observer that remembers one successful run that was not sticky, and whether
\* a run that was not sticky was made on other states since
Remember ==
    \/ /\ remembered = NoRun
       /\ call'.status = "ok" /\ ~call'.sticky
       /\ remembered' = [effPaths |-> call'.effPaths, result |-> result', between |-> FALSE]
    \/ remembered' =
           IF /\ remembered # NoRun
              /\ call'.status = "ok" /\ ~call'.sticky
              /\ call'.effPaths # remembered.effPaths
           THEN [remembered EXCEPT !.between = TRUE]
           ELSE remembered

NextDet ==
    \/ Replay /\ Remember
    \/ TakeResult

SpecDet == Init /\ [][NextDet]_vars

\* an observer that remembers the states of the most recent successful run that
\* was not sticky on a calculator with exercise times, and the indicators that run
\* replaced (those of the run that was not sticky before it)
RememberLast ==
    remembered' =
        IF call'.status = "ok" /\ ~call'.sticky /\ exerciseTimes_ # {}
        THEN [effPaths |-> call'.effPaths, result |-> << >>, between |-> FALSE,
              primary |-> exercised_]
        ELSE remembered

NextLast ==
    \/ Replay /\ RememberLast
    \/ TakeResult

SpecLast == Init /\ [][NextLast]_vars

(* ------------------- vocabulary of the replay properties ---------------- *)

\* the last call returned normally (no error, no undefined behaviour)
CallOk == call.status = "ok"
\* the last call returned normally from a calculator with exercise times
ExerciseCallOk == CallOk /\ exerciseTimes_ # {}
\* the last call was a run that is not sticky and determined the indicators
FreshRunOk == ExerciseCallOk /\ ~call.sticky

NumEx == Cardinality(exerciseTimes_)
NumXva == Cardinality(xvaTimes_)
XvaTime(k) == SortedSeq(xvaTimes_)[k]
ExTime(j) == SortedSeq(exerciseTimes_)[j]
\* the recorded indicator of the j-th exercise time, on path p
Indicator(j, p) == exercised_[j + 1][p]
\* the number of exercise times at or before the k-th valuation time
ExBefore(k) == Cardinality({e \in exerciseTimes_ : e <= XvaTime(k)})
\* path p was exercised at an exercise time at or before the k-th valuation time
WasExercisedAt(k, p) == \E j \in 1..ExBefore(k) : Indicator(j, p)
\* path p was exercised at the latest exercise time at or before the k-th valuation time
ExercisedAtLatest(k, p) == ExBefore(k) >= 1 /\ Indicator(ExBefore(k), p)
\* the regressions evaluated at the state supplied for the k-th valuation time
GridRank(k) == Rank(XvaTime(k), exerciseXvaTimes_) + 1
DirtyAt(k, p) == coeffsUndDirty_[GridRank(k)][1] + coeffsUndDirty_[GridRank(k)][2] * call.effPaths[k][p]
ExIntoAt(k, p) == coeffsUndExInto_[GridRank(k)][1] + coeffsUndExInto_[GridRank(k)][2] * call.effPaths[k][p]
OptionAt(k, p) == coeffsOption_[GridRank(k)][1] + coeffsOption_[GridRank(k)][2] * call.effPaths[k][p]
\* the exercised contribution: exercise-into value in the period after the
\* exercise, dirty value from the next exercise time on
ExercisedAt(k, p) == IF ExercisedAtLatest(k, p) THEN ExIntoAt(k, p) ELSE DirtyAt(k, p)
Floor0(x) == IF x > 0 THEN x ELSE 0
\* the result entry of the k-th valuation time
ResultAt(k, p) == result[k + 1][p]
\* the first valuation time at which path p counts as exercised
FirstExercisedXva(p) == SetMin({k \in 1..NumXva : WasExercisedAt(k, p)})

(* ------------------------------- C1 ------------------------------------ *)

\* C1 as stated: in a run that is not sticky the recorded indicators are monotone
\* over the exercise times, once true they stay true.
C1_MonotoneIndicators ==
    FreshRunOk =>
        \A p \in Samples : \A j \in 1..(NumEx - 1) :
            Indicator(j, p) => Indicator(j + 1, p)

\* C1 (amended): the recorded indicator marks the exercise taking place at that
\* exercise time and is not cumulative: it is true at an exercise time only if it
\* was false at the exercise time before, so a true indicator is followed by a
\* false one.
C1_IndicatorMarksFreshExercise ==
    FreshRunOk =>
        \A p \in Samples : \A j \in 1..(NumEx - 1) :
            Indicator(j, p) => ~Indicator(j + 1, p)

C1_Witness ==
    /\ FreshRunOk
    /\ \E p \in Samples : \E j \in 1..(NumEx - 1) :
           Indicator(j, p) /\ ~Indicator(j + 1, p)

(* ------------------------------- C2 ------------------------------------ *)

\* C2: in a run that is not sticky an indicator is true only if the path was
\* exercised at no earlier exercise time, so a path has at most one true indicator.
C2_AtMostOneFreshExercise ==
    FreshRunOk =>
        \A p \in Samples : \A i, j \in 1..NumEx :
            (i < j /\ Indicator(i, p)) => ~Indicator(j, p)

(* ------------------------------- C3 ------------------------------------ *)

\* C3 as stated: every returned value of a valuation time is >= 0, with and
\* without exercise times.
C3_AllResultsNonNegative ==
    result # << >> =>
        \A p \in Samples : \A k \in 1..NumXva : ResultAt(k, p) >= 0

\* C3 (amended): with exercise times every returned value of a valuation time is
\* >= 0; without exercise times the value is the dirty npv, which is not floored.
C3_ExerciseResultsNonNegative ==
    /\ (result # << >> /\ exerciseTimes_ # {}) =>
           \A p \in Samples : \A k \in 1..NumXva : ResultAt(k, p) >= 0
    /\ (CallOk /\ exerciseTimes_ = {}) =>
           \A p \in Samples : \A k \in 1..NumXva : ResultAt(k, p) = DirtyAt(k, p)

\* the floor acts: a path that is not exercised and has a negative option value
C3_Witness ==
    /\ ExerciseCallOk
    /\ \E p \in Samples : \E k \in 1..NumXva :
           ~WasExercisedAt(k, p) /\ OptionAt(k, p) < 0 /\ ResultAt(k, p) = 0


(* ------------------------------- C4 ------------------------------------ *)

\* the exercise condition of the j-th exercise time on path p, at the state
\* interpolated from the states of the last call
ExerciseCondition(j, p) ==
    LET s  == InterpolatedState(ExTime(j), call.effPaths)
        r  == Rank(ExTime(j), exerciseXvaTimes_) + 1
        ev == coeffsUndExInto_[r][1] * s.den + coeffsUndExInto_[r][2] * s.num[p]
        cv == coeffsContinuationValue_[r][1] * s.den + coeffsContinuationValue_[r][2] * s.num[p]
    IN  ev > cv /\ ev > 0

\* the cash-settled exercised value of path p was accounted for before the k-th
\* valuation time
AccountedBefore(k, p) ==
    settlement_ = "Cash" /\ \E i \in 1..(k - 1) : WasExercisedAt(i, p)

\* C4 as stated: with exercise times the result is max(0, v) with v the
\* exercise-into regression on an exercised path and the dirty-value regression
\* otherwise.
C4_ExIntoElseDirty ==
    ExerciseCallOk =>
        \A p \in Samples : \A k \in 1..NumXva :
            ResultAt(k, p) =
                Floor0(IF ExercisedAtLatest(k, p) THEN ExIntoAt(k, p) ELSE DirtyAt(k, p))

\* C4 (amended): with exercise times the result is max(0, v), where v is the
\* option-value regression while the path is not exercised and the exercised
\* contribution once it is (exercise-into regression if the path exercised at the
\* latest exercise time at or before the valuation time, dirty-value regression if
\* it exercised earlier, zero once a cash-settled exercise was accounted for); with
\* two exercise times t1 < t2 and the exercise condition holding only at t2, the
\* indicator is false at t1 and true at t2.
C4_OptionThenExercised ==
    /\ ExerciseCallOk =>
           \A p \in Samples : \A k \in 1..NumXva :
               ResultAt(k, p) =
                   Floor0(IF ~WasExercisedAt(k, p) THEN OptionAt(k, p)
                          ELSE IF AccountedBefore(k, p) THEN 0
                          ELSE ExercisedAt(k, p))
    /\ (FreshRunOk /\ NumEx = 2 /\ ExTime(2) <= SetMax(xvaTimes_)) =>
           \A p \in Samples :
               (~ExerciseCondition(1, p) /\ ExerciseCondition(2, p)) =>
                   (~Indicator(1, p) /\ Indicator(2, p))

\* a path exercises at t2 only: option value before t2, exercise-into value from t2
C4_Witness ==
    /\ FreshRunOk /\ NumEx = 2 /\ NumXva = 2
    /\ XvaTime(1) < ExTime(2) /\ ExTime(2) <= XvaTime(2)
    /\ \E p \in Samples :
        /\ ~ExerciseCondition(1, p) /\ ExerciseCondition(2, p)
        /\ ~Indicator(1, p) /\ Indicator(2, p)
        /\ ResultAt(1, p) = Floor0(OptionAt(1, p))
        /\ ResultAt(1, p) # Floor0(DirtyAt(1, p))
        /\ ResultAt(2, p) = Floor0(ExIntoAt(2, p))
        /\ ResultAt(2, p) # Floor0(OptionAt(2, p))

(* ------------------------------- C5 ------------------------------------ *)

\* C5: under cash settlement the exercised contribution of an exercised path
\* enters the result at the first valuation time at or after the exercise and the
\* result is zero at every later valuation time.
C5_CashExercisedValueOnce ==
    (ExerciseCallOk /\ settlement_ = "Cash") =>
        \A p \in Samples :
            (\E j \in 1..NumEx : Indicator(j, p)) =>
                /\ \E k \in 1..NumXva : WasExercisedAt(k, p)
                /\ ResultAt(FirstExercisedXva(p), p) =
                       Floor0(ExercisedAt(FirstExercisedXva(p), p))
                /\ \A k \in 1..NumXva : k > FirstExercisedXva(p) => ResultAt(k, p) = 0

\* the exercised value would be positive at a later valuation time and is masked
C5_Witness ==
    /\ ExerciseCallOk /\ settlement_ = "Cash"
    /\ \E p \in Samples : \E k \in 1..NumXva :
        /\ \E i \in 1..(k - 1) : WasExercisedAt(i, p) /\ ResultAt(i, p) > 0
        /\ ExercisedAt(k, p) > 0
        /\ ResultAt(k, p) = 0

(* ------------------------------- C6 ------------------------------------ *)

\* C6: under physical settlement the exercised contribution of an exercised path
\* is the result at every valuation time at or after the exercise.
C6_PhysicalExercisedValueAlways ==
    (ExerciseCallOk /\ settlement_ = "Physical") =>
        \A p \in Samples : \A k \in 1..NumXva :
            WasExercisedAt(k, p) => ResultAt(k, p) = Floor0(ExercisedAt(k, p))

\* an exercised path with a positive exercised value at two valuation times
C6_Witness ==
    /\ ExerciseCallOk /\ settlement_ = "Physical"
    /\ \E p \in Samples : \E i, k \in 1..NumXva :
        /\ i < k /\ WasExercisedAt(i, p)
        /\ ResultAt(i, p) > 0 /\ ResultAt(k, p) > 0
        /\ ResultAt(k, p) # Floor0(OptionAt(k, p))

(* ------------------------------- C8 ------------------------------------ *)

\* C8: a sticky run leaves the stored exercise indicators as the preceding run that
\* was not sticky recorded them.
C8_StickyKeepsIndicators ==
    [][call'.sticky => exercised_' = exercised_]_vars

\* a sticky rerun has returned, on states from which a run that is not sticky
\* would have determined other indicators than the stored ones
C8_Witness ==
    /\ ExerciseCallOk /\ call.sticky
    /\ \E p \in Samples : \E j \in 1..NumEx : Indicator(j, p)
    /\ ExerciseLoop(SortedSeq(exerciseTimes_), 0, call.effPaths, FreshIndicators) # exercised_


(* ------------------------------- C7 ------------------------------------ *)

\* C7: a run that is not sticky returns what an earlier run that was not sticky
\* returned for the same states, whatever calls were made before and in between.
C7_ReplayDeterministic ==
    (CallOk /\ ~call.sticky /\ remembered # NoRun /\ call.effPaths = remembered.effPaths)
        => result = remembered.result

\* the run is repeated after a run on other states that left other indicators
C7_Witness ==
    /\ FreshRunOk /\ remembered # NoRun /\ remembered.between
    /\ call.effPaths = remembered.effPaths
    /\ result = remembered.result
    /\ \E p \in Samples : \E j \in 1..NumEx : Indicator(j, p)
    /\ \E p \in Samples : \E k \in 1..NumXva : WasExercisedAt(k, p)


(* ------------------------------- C12 ----------------------------------- *)

\* a call is made in this step
CallMade == call = NoCall /\ call' # NoCall

\* C12: a calculator without exercise times returns at each valuation time the
\* dirty-value regression at the state supplied for that time, and the call runs
\* no exercise logic: the stored indicators are left as they were.
C12_NoExerciseReturnsDirty ==
    [][(CallMade /\ exerciseTimes_ = {} /\ call'.status = "ok") =>
          /\ exercised_' = exercised_
          /\ Len(result') = NumXva + 1
          /\ \A k \in 1..NumXva : \A p \in Samples :
                 result'[k + 1][p] =
                     coeffsUndDirty_[GridRank(k)][1]
                         + coeffsUndDirty_[GridRank(k)][2] * call'.effPaths[k][p]]_vars

\* a calculator without exercise times returned a negative dirty value
C12_Witness ==
    /\ CallOk /\ exerciseTimes_ = {}
    /\ exercised_ = << >>
    /\ \E k \in 1..NumXva : \E p \in Samples :
           DirtyAt(k, p) < 0 /\ ResultAt(k, p) = DirtyAt(k, p)

(* ------------------------------- C13 ----------------------------------- *)

\* the values the k-th valuation time can take on path p: a regression stored at
\* the rank of that time, evaluated at the k-th effective state
ValuesAt(k, p) ==
    IF exerciseTimes_ = {} THEN {DirtyAt(k, p)}
    ELSE {0, Floor0(OptionAt(k, p)), Floor0(ExIntoAt(k, p)), Floor0(DirtyAt(k, p))}

\* C13: every successful call returns number of valuation times + 1 entries;
\* entry 0 is the calibrated reference date value on every path and entry k
\* belongs to the k-th valuation time in increasing order.
C13_ResultShape ==
    CallOk =>
        /\ Len(result) = NumXva + 1
        /\ result[1] = RV(resultValue_)
        /\ \A k \in 1..NumXva : \A p \in Samples : ResultAt(k, p) \in ValuesAt(k, p)

\* two valuation times whose entries differ, neither being the reference value
C13_Witness ==
    /\ CallOk /\ NumXva = 2 /\ Len(result) = 3
    /\ \E p \in Samples :
           /\ ResultAt(1, p) # ResultAt(2, p)
           /\ ResultAt(1, p) \notin ValuesAt(2, p)
           /\ ResultAt(2, p) # resultValue_

(* ------------------------------- C14 ----------------------------------- *)

NumFlagged(c) == Cardinality({i \in DOMAIN c.isRelevantTime : c.isRelevantTime[i]})

\* C14: a call fails with a fatal error, returns nothing and leaves the stored
\* indicators unchanged when the paths are empty, when path times and path states
\* differ in number, or when the number of flagged times differs from the number
\* of valuation times.
C14_InconsistentInputFails ==
    [][(/\ CallMade
        /\ \/ call'.numPaths = 0
           \/ Len(call'.pathTimes) # call'.numPaths
           \/ NumFlagged(call') # NumXva)
       => /\ call'.status = "error"
          /\ result' = << >>
          /\ exercised_' = exercised_]_vars

(* ------------------------------- C15 ----------------------------------- *)

\* C15: in a sticky run a flagged first path time makes the call fail before a
\* path time is read; for every flagged position i >= 1 (counted from 0) the time
\* taken is pathTimes[i-1] and the state taken is paths[i].
C15_StickyOffset ==
    /\ (call.status # "none" /\ call.sticky /\ call.numPaths > 0
            /\ Len(call.pathTimes) = call.numPaths /\ call.isRelevantTime[1]) =>
           /\ call.status = "error"
           /\ call.error = "sticky close out run time index is negative"
           /\ call.simTimes = << >> /\ result = << >>
    /\ (CallOk /\ call.sticky) =>
           LET flagged == FlaggedSeq(call.isRelevantTime)
           IN  /\ Len(call.simTimes) = Len(flagged)
               /\ \A k \in DOMAIN flagged :
                      /\ call.simTimes[k] = call.pathTimes[flagged[k] - 1]
                      /\ call.effPaths[k] = call.paths[flagged[k]]

\* a sticky run returned, having taken its times one position before its states
C15_Witness ==
    /\ CallOk /\ call.sticky
    /\ call.simTimes # << >>
    /\ \A k \in DOMAIN call.simTimes :
           call.simTimes[k] # call.pathTimes[FlaggedSeq(call.isRelevantTime)[k]]
    /\ \E k \in DOMAIN call.effPaths : call.effPaths[k] # RV(0)

(* ==================== McMultiLegBaseEngine::calculate ==================== *)
(* Dates are days after the reference date, which is the 29th or the 30th *)
(* of a month of 31 days.  Times are counted in units of tinyTime (1E-10 years) and come  *)
(* from the day counter of the model's term structure, Actual/365 (Fixed)   *)
(* or 30E/360: one day is 1E10/365 or 1E10/360 units.  The regression basis *)
(* of the calibration is the constant function (polynomial order 0), for    *)
(* which the least squares fit of a target is its mean over the paths of    *)
(* the filter.  All values are in units of 1/NumCalSamples, which makes the *)
(* means integers.                                                          *)

today_ == 0
tinyTime == 1
DaysInMonth == 31
DayLength365 == 27397260
DayLength360 == 27777777
DayCounters == {"Actual365Fixed", "Thirty360"}

\* the day of the month counted by 30E/360
Day30(dayOfMonth) == IF dayOfMonth > 30 THEN 30 ELSE dayOfMonth

\* dayCounter().yearFraction(referenceDate, d), in units of tinyTime
yearFraction(d) ==
    LET dayOfMonth == referenceDay + d
    IN  IF dayCounter_ = "Actual365Fixed" THEN d * DayLength365
        ELSE IF dayOfMonth <= DaysInMonth
        THEN (Day30(dayOfMonth) - Day30(referenceDay)) * DayLength360
        ELSE (30 + (dayOfMonth - DaysInMonth) - Day30(referenceDay)) * DayLength360

\* McMultiLegBaseEngine::time
time(d) == yearFraction(d)

\* the coupons with one fixing of an index: the descriptor is built alike for both
FixingKinds == {"IborCoupon", "CmsCoupon"}

\* the coupons on overnight, BMA and sub-period fixings, capped and floored or not
AveragingKinds ==
    {"OvernightIndexedCoupon", "CappedFlooredOvernightIndexedCoupon",
     "AverageONIndexedCoupon", "CappedFlooredAverageONIndexedCoupon",
     "AverageBMACoupon", "CappedFlooredAverageBMACoupon", "SubPeriodsCoupon1"}

\* the coupons that wrap another coupon
WrapperKinds ==
    {"FloatingRateFXLinkedNotionalCoupon", "StrippedCappedFlooredCoupon",
     "CappedFlooredCoupon"}

CouponKinds ==
    {"FixedRateCoupon", "OtherCoupon"} \cup FixingKinds \cup AveragingKinds \cup WrapperKinds
Days == 0..MaxDay

\* the cash flows of the instruments: simple cash flows, fixed rate coupons and
\* coupons of a kind the engine does not handle, these accruing over one day
Flows ==
    {[kind |-> "SimpleCashFlow", date |-> d, accrualStartDate |-> d, amount |-> 1] : d \in Days}
    \cup
    {f \in [kind : {"FixedRateCoupon"}, date : Days, accrualStartDate : Days, amount : {1}] :
        f.accrualStartDate <= f.date}
    \cup
    {[kind |-> "OtherCoupon", date |-> d, accrualStartDate |-> d - 1, amount |-> 1] :
        d \in Days \ {0}}

\* fxl->fxIndex()->fixing(d) at a fixing date d that is not after today
FxIndexFixing == 2

\* the index fixing behind ibor->rate() when its fixing date is not after today
IborIndexFixing == 1

\* FX linked cash flows alive today: pay the foreign amount converted at the fixing
\* of the FX index; source and target currency are model currencies 0 (base) or 1
FXLinkedCashFlows ==
    {[kind |-> "FXLinkedCashFlow", date |-> d, fxFixingDate |-> x, foreignAmount |-> n,
      amount |-> n * FxIndexFixing, fxSourceCcyIdx |-> sc, fxTargetCcyIdx |-> tc] :
        d \in Days \ {0}, x \in Days, n \in {1, 2}, sc \in {0, 1}, tc \in {0, 1}}

\* Ibor coupons alive today, in the base currency, with gearing 1; the accrual
\* period is counted in days
IborCoupons ==
    {[kind |-> "IborCoupon", date |-> d, accrualStartDate |-> a, fixingDate |-> x,
      nominal |-> 1, gearing |-> 1, spread |-> sp, rate |-> IborIndexFixing + sp,
      accrualPeriod |-> d - a, indexCcyIdx |-> 0] :
        d \in Days \ {0}, a \in Days, x \in Days, sp \in {0, 1}}

\* CMS coupons alive today, with gearing 2, accruing over one day
CmsCoupons ==
    {[kind |-> "CmsCoupon", date |-> d, accrualStartDate |-> d - 1, fixingDate |-> x,
      nominal |-> 1, gearing |-> 2, spread |-> sp, rate |-> 2 * IborIndexFixing + sp,
      accrualPeriod |-> 1, indexCcyIdx |-> 0] :
        d \in Days \ {0}, x \in Days, sp \in {0, 1}}

\* coupons on overnight, BMA and sub-period fixings alive today; fixingDate is
\* the first of their value dates or fixing dates
AveragingCoupons ==
    {[kind |-> k, date |-> d, accrualStartDate |-> d - 1, fixingDate |-> x,
      nominal |-> 1, accrualPeriod |-> 1, indexCcyIdx |-> 0] :
        k \in AveragingKinds, d \in Days \ {0}, x \in Days}

\* the cap and the floor of a capped floored coupon: not set, or set to CapFloorRate
CapFloorRate == 2

\* an Array entry or a Real that is Null, and one that is set
Null == << >>
Some(x) == << x >>

\* capped floored Ibor and CMS coupons, the Ibor coupons accruing over one day
CappedFlooredCoupons ==
    {[kind |-> "CappedFlooredCoupon", date |-> u.date,
      accrualStartDate |-> u.accrualStartDate, underlying |-> u,
      effectiveCap |-> cap, effectiveFloor |-> floor] :
        u \in {i \in IborCoupons : i.accrualStartDate = i.date - 1} \cup CmsCoupons,
        cap \in {Null, Some(CapFloorRate)}, floor \in {Null, Some(CapFloorRate)}}

\* the same with the swaplet stripped: the naked options
StrippedCappedFlooredCoupons ==
    {[kind |-> "StrippedCappedFlooredCoupon", date |-> u.date,
      accrualStartDate |-> u.accrualStartDate, underlying |-> u] :
        u \in CappedFlooredCoupons}

\* FX linked notional coupons alive today that wrap an Ibor coupon
FXLinkedIborCoupons ==
    {[kind |-> "FloatingRateFXLinkedNotionalCoupon", date |-> u.date,
      accrualStartDate |-> u.accrualStartDate, underlying |-> u,
      fxFixingDate |-> x, foreignAmount |-> n,
      fxSourceCcyIdx |-> sc, fxTargetCcyIdx |-> tc] :
        u \in IborCoupons, x \in Days, n \in {1, 2}, sc \in {0, 1}, tc \in {0, 1}}

\* FX linked notional coupons alive today that wrap one of the other coupons; the
\* FX fixing is on the reference date or the day after, one currency is foreign
FXLinkedOtherCoupons ==
    {[kind |-> "FloatingRateFXLinkedNotionalCoupon", date |-> u.date,
      accrualStartDate |-> u.accrualStartDate, underlying |-> u,
      fxFixingDate |-> x, foreignAmount |-> 2,
      fxSourceCcyIdx |-> c[1], fxTargetCcyIdx |-> c[2]] :
        u \in CmsCoupons \cup AveragingCoupons \cup CappedFlooredCoupons
              \cup StrippedCappedFlooredCoupons,
        x \in {today_, today_ + 1}, c \in {<< 1, 0 >>, << 0, 1 >>, << 1, 1 >>}}

FloatingRateFXLinkedNotionalCoupons == FXLinkedIborCoupons \cup FXLinkedOtherCoupons

\* the cash flows createCashflowInfo is called with on its own
InfoFlows ==
    {f \in Flows : f.date > today_} \cup FXLinkedCashFlows \cup IborCoupons
    \cup CmsCoupons \cup AveragingCoupons \cup CappedFlooredCoupons
    \cup StrippedCappedFlooredCoupons \cup FloatingRateFXLinkedNotionalCoupons

SeqsUpTo(S, n) == UNION {[1..k -> S] : k \in 0..n}
SetsUpTo(S, n) == {X \in SUBSET S : Cardinality(X) <= n}

\* cpn->accrualStartDate() < flow->date()
AccrualStartBeforePayDate(flow) == flow.accrualStartDate < flow.date

\* (variant) every cash flow is taken as one of a fixed amount
HandledAlways(flow) == TRUE

\* the shapes with a fixed amount: FixedRateCoupon and SimpleCashFlow
Handled(flow) == flow.kind \in {"FixedRateCoupon", "SimpleCashFlow"}

\* model_->pIdx(assetType, i): the component of the model state
pIdx(assetType, i) == << assetType, i >>

\* the model indices of an FX fixing: one for each currency that is not the base
FxModelIndices(sourceCcyIdx, targetCcyIdx) ==
    (IF sourceCcyIdx > 0 THEN << pIdx("FX", sourceCcyIdx - 1) >> ELSE << >>)
    \o (IF targetCcyIdx > 0 THEN << pIdx("FX", targetCcyIdx - 1) >> ELSE << >>)

\* (variant) an FX fixing of today is taken as one still to be simulated
FxFixingKnownBeforeToday(fxLinkedFixingDate) == fxLinkedFixingDate < today_

\* fxLinkedFixingDate <= today_, the negation of fxLinkedFixingDate > today_
FxFixingKnown(fxLinkedFixingDate) == fxLinkedFixingDate <= today_

\* the descriptor of an FXLinkedCashFlow
FXLinkedCashFlowInfo(info, fxl) ==
    LET known == FxFixingKnown(fxl.fxFixingDate)
    IN  [info EXCEPT
            !.simulationTimes = IF known THEN << >> ELSE << time(fxl.fxFixingDate) >>,
            !.modelIndices = IF known THEN << >>
                             ELSE << FxModelIndices(fxl.fxSourceCcyIdx, fxl.fxTargetCcyIdx) >>,
            !.amountCalculator = [shape |-> "FXLinkedCashFlow",
                                  fxFixingKnown |-> known,
                                  amount |-> fxl.amount,
                                  foreignAmount |-> fxl.foreignAmount,
                                  fxLinkedSourceCcyIdx |-> fxl.fxSourceCcyIdx,
                                  fxLinkedTargetCcyIdx |-> fxl.fxTargetCcyIdx]]

\* what is extracted from a FloatingRateFXLinkedNotionalCoupon before the
\* underlying coupon is handled, and the values these locals start with
NotFxLinked ==
    [isFxLinked |-> FALSE, fxLinkedForeignNominal |-> Null,
     fxLinkedSourceCcyIdx |-> Null, fxLinkedTargetCcyIdx |-> Null,
     fxLinkedFixedFxRate |-> Null, fxLinkedSimTime |-> Null,
     fxLinkedModelIndices |-> << >>]

FxLinkedWrapper(fxl) ==
    LET known == FxFixingKnown(fxl.fxFixingDate)
    IN  [isFxLinked |-> TRUE,
         fxLinkedForeignNominal |-> Some(fxl.foreignAmount),
         fxLinkedSourceCcyIdx |-> Some(fxl.fxSourceCcyIdx),
         fxLinkedTargetCcyIdx |-> Some(fxl.fxTargetCcyIdx),
         fxLinkedFixedFxRate |-> IF known THEN Some(FxIndexFixing) ELSE Null,
         fxLinkedSimTime |-> IF known THEN Null ELSE Some(time(fxl.fxFixingDate)),
         fxLinkedModelIndices |->
             IF known THEN << >>
             ELSE FxModelIndices(fxl.fxSourceCcyIdx, fxl.fxTargetCcyIdx)]

\* the wrappers taken off a coupon one after the other, and the coupon inside
Unwrapped(flow) ==
    LET isFxLinked == flow.kind = "FloatingRateFXLinkedNotionalCoupon"
        f1 == IF isFxLinked THEN flow.underlying ELSE flow
        isNakedOption == f1.kind = "StrippedCappedFlooredCoupon"
        f2 == IF isNakedOption THEN f1.underlying ELSE f1
        isCapFloored == f2.kind = "CappedFlooredCoupon"
        f3 == IF isCapFloored THEN f2.underlying ELSE f2
    IN  [wrapper |-> IF isFxLinked THEN FxLinkedWrapper(flow) ELSE NotFxLinked,
         isNakedOption |-> isNakedOption,
         isCapFloored |-> isCapFloored,
         effCap |-> IF isCapFloored THEN f2.effectiveCap ELSE Null,
         effFloor |-> IF isCapFloored THEN f2.effectiveFloor ELSE Null,
         flow |-> f3]

\* std::max(0.0, time(d))
TimeNotBeforeToday(d) == IF time(d) > 0 THEN time(d) ELSE 0

\* the descriptor of a coupon on overnight, BMA or sub-period fixings: the time
\* of the first value or fixing date is always declared
AveragingCouponInfo(info, on, u) ==
    LET w == u.wrapper
        fx == IF w.fxLinkedSimTime # Null THEN w.fxLinkedSimTime ELSE << >>
        fxIndices == IF w.fxLinkedSimTime # Null THEN << w.fxLinkedModelIndices >> ELSE << >>
    IN  [info EXCEPT
            !.simulationTimes = << TimeNotBeforeToday(on.fixingDate) >> \o fx,
            !.modelIndices = << << pIdx("IR", on.indexCcyIdx) >> >> \o fxIndices,
            !.amountCalculator = [shape |-> "AveragingCoupon",
                                  nominal |-> on.nominal,
                                  accrualPeriod |-> on.accrualPeriod,
                                  wrapper |-> w]]

\* (variant) a fixing of today is taken as one still to be simulated
FixingKnownBeforeToday(fixingDate) == fixingDate < today_

\* ibor->fixingDate() <= today_, the negation of ibor->fixingDate() > today_
FixingKnown(fixingDate) == fixingDate <= today_

\* the descriptor of an IborCoupon or a CmsCoupon, wrapped or not
IborCouponInfo(info, ibor, u) ==
    LET w == u.wrapper
        fixedRate == IF FixingKnown(ibor.fixingDate)
                     THEN Some((ibor.rate - ibor.spread) \div ibor.gearing) ELSE Null
        own == IF ~FixingKnown(ibor.fixingDate) THEN << time(ibor.fixingDate) >> ELSE << >>
        ownIndices == IF ~FixingKnown(ibor.fixingDate)
                      THEN << << pIdx("IR", ibor.indexCcyIdx) >> >> ELSE << >>
        fx == IF w.fxLinkedSimTime # Null THEN w.fxLinkedSimTime ELSE << >>
        fxIndices == IF w.fxLinkedSimTime # Null THEN << w.fxLinkedModelIndices >> ELSE << >>
    IN  [info EXCEPT
            !.simulationTimes = own \o fx,
            !.modelIndices = ownIndices \o fxIndices,
            !.amountCalculator = [shape |-> "IborCoupon",
                                  fixedRate |-> fixedRate,
                                  gearing |-> ibor.gearing,
                                  spread |-> ibor.spread,
                                  nominal |-> ibor.nominal,
                                  accrualPeriod |-> ibor.accrualPeriod,
                                  isCapFloored |-> u.isCapFloored,
                                  isNakedOption |-> u.isNakedOption,
                                  effFloor |-> u.effFloor,
                                  effCap |-> u.effCap,
                                  wrapper |-> w]]

\* createCashflowInfo: the descriptor, or the error it fails with
\* (variant) the cutoff of a coupon is its accrual start time
CouponCutoffAtAccrualStart(flow) == time(flow.accrualStartDate)

\* the exercise-into cutoff of a coupon: time(cpn->accrualStartDate()) + tinyTime
CouponCutoff(flow) == time(flow.accrualStartDate) + tinyTime

createCashflowInfo(flow, payCcy, payer, legNo, cfNo) ==
    LET isCoupon == flow.kind \in CouponKinds
        info == [legNo |-> legNo, cfNo |-> cfNo,
                 payTime |-> time(flow.date),
                 payCcyIndex |-> payCcy,
                 payer |-> payer,
                 exIntoCriterionTime |->
                     IF isCoupon THEN CouponCutoff(flow)
                     ELSE time(flow.date),
                 simulationTimes |-> << >>,
                 modelIndices |-> << >>,
                 amountCalculator |-> [shape |-> "none"],
                 error |-> ""]
    IN  IF isCoupon /\ ~AccrualStartBeforePayDate(flow)
        THEN [info EXCEPT !.error = "accrual start date >= pay date"]
        ELSE IF Handled(flow)
        THEN [info EXCEPT !.amountCalculator = [shape |-> "fixed", amount |-> flow.amount]]
        ELSE IF flow.kind = "FXLinkedCashFlow"
        THEN FXLinkedCashFlowInfo(info, flow)
        ELSE IF flow.kind \in WrapperKinds \cup FixingKinds \cup AveragingKinds
        THEN LET u == Unwrapped(flow)
             IN  IF u.flow.kind \in FixingKinds THEN IborCouponInfo(info, u.flow, u)
                 ELSE IF u.flow.kind \in AveragingKinds
                 THEN AveragingCouponInfo(info, u.flow, u)
                 ELSE [info EXCEPT !.error = "unhandled coupon"]
        ELSE [info EXCEPT !.error = "unhandled coupon"]

\* the loop over the legs and their cash flows: the descriptors of the alive cash
\* flows up to and including the first one that fails
\* cashflow->date() <= today_: the cash flow is skipped
Paid(flow) == flow.date <= today_

RECURSIVE PopulateLeg(_, _, _, _, _)
PopulateLeg(leg, k, legNo, cashflowNo, acc) ==
    IF k > Len(leg) \/ (acc # << >> /\ acc[Len(acc)].error # "") THEN acc
    ELSE IF Paid(leg[k])
    THEN PopulateLeg(leg, k + 1, legNo, cashflowNo, acc)   \* paid: skipped
    ELSE PopulateLeg(leg, k + 1, legNo, cashflowNo + 1,
             Append(acc, createCashflowInfo(leg[k], currency_[legNo + 1], payer_[legNo + 1],
                                            legNo, cashflowNo)))

RECURSIVE PopulateInfo(_, _)
PopulateInfo(legNo, acc) ==
    IF legNo >= Len(leg_) THEN acc
    ELSE PopulateInfo(legNo + 1, PopulateLeg(leg_[legNo + 1], 1, legNo, 0, acc))

\* the time sets calculate() builds
CalcExerciseTimes ==
    IF exercise_ = NoExercise THEN {} ELSE {time(d) : d \in {e \in exercise_.dates : e > today_}}
CalcXvaTimes == {time(d) : d \in simulationDates_}
CalcCashflowGenTimes(infos) ==
    (UNION {{infos[i].payTime} \cup {infos[i].simulationTimes[j] :
                                       j \in DOMAIN infos[i].simulationTimes} :
            i \in DOMAIN infos}) \ {0}

\* 1 / numeraire(t, x), a positive function of the state
Discount(x) == MaxState + 1 + x

\* exp of a model state, the index fixing and the rate of a coupon on overnight,
\* BMA or sub-period fixings that the LGM model gives in a state, all on the
\* integer scale of the states
ExpState(x) == MaxState + 1 + x
lgmFixing(x) == MaxState + 1 - x
lgmCouponRate(x) == MaxState + 2 - x

Max0(x) == IF x > 0 THEN x ELSE 0

\* (variant) the caplet is subtracted for a naked option without floor as well
CapletSignAlwaysPlus(isNakedOption, effFloor) == 1

\* isNakedOption && effFloor == Null<Real>() ? -1.0 : 1.0
CapletSign(isNakedOption, effFloor) == IF isNakedOption /\ effFloor = Null THEN -1 ELSE 1

\* the effective rate of an Ibor or CMS coupon from its fixing
EffectiveRate(c, fixing) ==
    IF c.isCapFloored
    THEN LET swapletRate == IF ~c.isNakedOption THEN c.gearing * fixing + c.spread ELSE 0
             floorletRate == IF c.effFloor # Null
                             THEN c.gearing * Max0(c.effFloor[1] - fixing) ELSE 0
             capletRate == IF c.effCap # Null
                           THEN c.gearing * Max0(fixing - c.effCap[1])
                                * CapletSign(c.isNakedOption, c.effFloor)
                           ELSE 0
         IN  swapletRate + floorletRate - capletRate
    ELSE c.gearing * fixing + c.spread

\* states.at(k).at(j), with k and j counted from 0 as in the source
HasSlot(states, slot) ==
    slot[1] + 1 \in DOMAIN states /\ slot[2] + 1 \in DOMAIN states[slot[1] + 1]
StateAt(states, slot) == states[slot[1] + 1][slot[2] + 1]

\* the slots an FX fixing reads in states.at(k), and the quotient
\* fxSource / fxTarget it computes from them
FxSlots(k, sourceCcyIdx, targetCcyIdx) ==
    (IF sourceCcyIdx > 0 THEN {<< k, 0 >>} ELSE {})
    \cup (IF targetCcyIdx > 0 THEN {<< k, IF sourceCcyIdx > 0 THEN 1 ELSE 0 >>} ELSE {})
FxSource(states, k, sourceCcyIdx) ==
    IF sourceCcyIdx > 0 THEN ExpState(StateAt(states, << k, 0 >>)) ELSE 1
FxTarget(states, k, sourceCcyIdx, targetCcyIdx) ==
    IF targetCcyIdx > 0
    THEN ExpState(StateAt(states, << k, IF sourceCcyIdx > 0 THEN 1 ELSE 0 >>))
    ELSE 1

\* the slots of states the amount function of a descriptor reads
SlotsRead(c) ==
    IF c.shape = "FXLinkedCashFlow"
    THEN IF c.fxFixingKnown THEN {}
         ELSE FxSlots(0, c.fxLinkedSourceCcyIdx, c.fxLinkedTargetCcyIdx)
    ELSE IF c.shape \in {"IborCoupon", "AveragingCoupon"}
    THEN (IF c.shape = "IborCoupon" /\ c.fixedRate # Null THEN {} ELSE {<< 0, 0 >>})
         \cup (IF c.wrapper.isFxLinked /\ c.wrapper.fxLinkedFixedFxRate = Null
               THEN FxSlots(1, c.wrapper.fxLinkedSourceCcyIdx[1],
                            c.wrapper.fxLinkedTargetCcyIdx[1])
               ELSE {})
    ELSE {}

\* the amount the function computes, as the fraction num / den
AmountOf(c, states) ==
    IF c.shape = "FXLinkedCashFlow"
    THEN IF c.fxFixingKnown THEN [num |-> c.amount, den |-> 1]
         ELSE [num |-> c.foreignAmount * FxSource(states, 0, c.fxLinkedSourceCcyIdx),
               den |-> FxTarget(states, 0, c.fxLinkedSourceCcyIdx, c.fxLinkedTargetCcyIdx)]
    ELSE IF c.shape \in {"IborCoupon", "AveragingCoupon"}
    THEN LET w == c.wrapper
             fixing == IF c.fixedRate # Null THEN c.fixedRate[1]
                       ELSE lgmFixing(StateAt(states, << 0, 0 >>))
             known == w.fxLinkedFixedFxRate # Null
             fxNum == IF ~w.isFxLinked THEN 1
                      ELSE IF known THEN w.fxLinkedFixedFxRate[1]
                      ELSE FxSource(states, 1, w.fxLinkedSourceCcyIdx[1])
             fxDen == IF ~w.isFxLinked \/ known THEN 1
                      ELSE FxTarget(states, 1, w.fxLinkedSourceCcyIdx[1],
                                    w.fxLinkedTargetCcyIdx[1])
             effectiveRate == IF c.shape = "IborCoupon" THEN EffectiveRate(c, fixing)
                              ELSE lgmCouponRate(StateAt(states, << 0, 0 >>))
             notional == IF w.isFxLinked THEN w.fxLinkedForeignNominal[1] ELSE c.nominal
         IN  [num |-> notional * c.accrualPeriod * effectiveRate * fxNum, den |-> fxDen]
    ELSE [num |-> c.amount, den |-> 1]

\* info.amountCalculator(n, states): the amount and the slots read, or the
\* std::out_of_range of an at() outside states
amountCalculator(info, states) ==
    LET c == info.amountCalculator
        reads == SlotsRead(c)
    IN  IF \E slot \in reads : ~HasSlot(states, slot)
        THEN [states |-> states, num |-> 0, den |-> 1, reads |-> reads,
              error |-> "out of range"]
        ELSE [states |-> states, num |-> AmountOf(c, states).num,
              den |-> AmountOf(c, states).den, reads |-> reads, error |-> ""]

\* model_->stateProcess()->initialValues(): the state at time 0
initialValues == 0

\* timeIndex(t, times): the position of t in times; the QL_REQUIRE fails if t is
\* not an element
timeIndex(t, times) == Rank(t, times)

\* the times one call of cashflowPathValue takes states for: the pay time and the
\* simulation times other than 0 from the simulation times of the paths, a
\* simulation time 0 from the initial values
Lookups(cf) ==
    {[time |-> cf.payTime, from |-> "simulationTimes"]}
    \cup {[time |-> cf.simulationTimes[k],
           from |-> IF cf.simulationTimes[k] = 0 THEN "initialValues" ELSE "simulationTimes"] :
             k \in DOMAIN cf.simulationTimes}

\* a call of timeIndex fails
LookupMisses(cf, simulationTimes) ==
    \E l \in Lookups(cf) : l.from = "simulationTimes" /\ l.time \notin simulationTimes

\* the states handed to the amount function on path p
StatesOnPath(cf, pathValues, simulationTimes, p) ==
    [k \in DOMAIN cf.simulationTimes |->
        [j \in DOMAIN cf.modelIndices[k] |->
            IF cf.simulationTimes[k] = 0 THEN initialValues
            ELSE pathValues[timeIndex(cf.simulationTimes[k], simulationTimes) + 1][p]]]

\* the error a call of cashflowPathValue ends with, "" if it returns
cashflowPathValueError(cf, pathValues, simulationTimes) ==
    IF LookupMisses(cf, simulationTimes) THEN "time not found in simulation times"
    ELSE IF \E p \in CalSamples :
                amountCalculator(cf, StatesOnPath(cf, pathValues, simulationTimes, p)).error # ""
    THEN "out of range"
    ELSE ""

\* cashflowPathValue: the deflated amount of a cash flow on each calibration path
cashflowPathValue(cf, pathValues, simulationTimes) ==
    LET simTimesPayIdx == timeIndex(cf.payTime, simulationTimes)
    IN  [p \in CalSamples |->
            LET amount == amountCalculator(cf, StatesOnPath(cf, pathValues, simulationTimes, p))
            IN  (NumCalSamples * amount.num * Discount(pathValues[simTimesPayIdx + 1][p])
                     * cf.payer) \div amount.den]

ZeroPathValue == [p \in CalSamples |-> 0]
PathSum(x, y) == [p \in CalSamples |-> x[p] + y[p]]

\* regressionCoefficients for the constant basis: the mean of the target over the
\* paths of the filter
regressionCoefficients(target, filter) ==
    LET S == {p \in CalSamples : filter[p]}
        sum[T \in SUBSET S] ==
            IF T = {} THEN 0 ELSE LET q == CHOOSE q \in T : TRUE IN target[q] + sum[T \ {q}]
    IN  IF S = {} THEN << 0, 0 >> ELSE << sum[S] \div Cardinality(S), 0 >>

AllPaths == [p \in CalSamples |-> TRUE]

\* expectation(x).at(0) * numeraire(0, 0, 0), times the number of paths
expectation(x) == regressionCoefficients(x, AllPaths)[1]

\* conditionalExpectation for the constant basis
fittedValue(coeffs) == [p \in CalSamples |-> coeffs[1]]

\* the paths on which the calibration exercises at an exercise time
ExerciseFilter(exerciseValue, continuationValue) ==
    [p \in CalSamples |-> ExerciseTriggered(exerciseValue[p], continuationValue[p])]

\* (variant) an exercised path takes the regressed exercise value
ExerciseUpdateRegressed(exerciseValue, continuationValue, pathValueUndExInto, pathValueOption) ==
    [p \in CalSamples |->
        IF ExerciseFilter(exerciseValue, continuationValue)[p]
        THEN exerciseValue[p] ELSE pathValueOption[p]]

\* the update of pathValueOption at an exercise time
ExerciseUpdate(exerciseValue, continuationValue, pathValueUndExInto, pathValueOption) ==
    [p \in CalSamples |->
        IF ExerciseFilter(exerciseValue, continuationValue)[p]
        THEN pathValueUndExInto[p] ELSE pathValueOption[p]]

\* (variant) a cached cash flow is released at the next time of the walk
CachedReleasedAtNextTime(cf, t) == TRUE

\* a cached cash flow enters the exercise-into value: exIntoCriterionTime > *t
CachedReleased(cf, t) == cf.exIntoCriterionTime > t

\* one cash flow at one time of the backward walk; w holds the walk's locals
WalkFlow(w, i, t, pathValues, simulationTimes) ==
    LET cf  == w.cashflowInfo[i]
        tmp == cashflowPathValue(cf, pathValues, simulationTimes)
        \* cashflowPathValue throws: calculate() is left
        thrown == [w EXCEPT !.error = cashflowPathValueError(cf, pathValues, simulationTimes),
                            !.lookups = @ \cup Lookups(cf)]
    IN  IF w.error # "" THEN w
        ELSE IF w.cfStatus[i] = "open"
        THEN IF cf.exIntoCriterionTime > t
             THEN IF thrown.error # "" THEN thrown
                  ELSE [w EXCEPT !.pathValueUndDirty = PathSum(@, tmp),
                                 !.pathValueUndExInto = PathSum(@, tmp),
                                 !.cfStatus[i] = "done",
                                 !.evaluations[i] = @ + 1,
                                 !.lookups = @ \cup Lookups(cf)]
             ELSE IF cf.payTime > t
             THEN IF thrown.error # "" THEN thrown
                  ELSE [w EXCEPT !.pathValueUndDirty = PathSum(@, tmp),
                                 !.amountCache[i] = tmp,
                                 !.cfStatus[i] = "cached",
                                 !.evaluations[i] = @ + 1,
                                 !.lookups = @ \cup Lookups(cf)]
             ELSE w
        ELSE IF w.cfStatus[i] = "cached" /\ CachedReleased(cf, t)
        THEN [w EXCEPT !.pathValueUndExInto = PathSum(@, w.amountCache[i]),
                       !.cfStatus[i] = "done",
                       !.amountCache[i] = << >>]
        ELSE w

RECURSIVE WalkFlows(_, _, _, _, _)
WalkFlows(w, i, t, pathValues, simulationTimes) ==
    IF i > Len(w.cashflowInfo) THEN w
    ELSE WalkFlows(WalkFlow(w, i, t, pathValues, simulationTimes), i + 1, t,
                   pathValues, simulationTimes)

\* (variant) the option value is regressed whether or not an exercise is given
FitsOptionAlways == TRUE

\* (variant) the option value is regressed at the exercise times only
FitsOptionAtExerciseOnly == FALSE

\* the option value is regressed at each time: if (exercise_ != nullptr)
FitsOption == exercise_ # NoExercise

\* (variant) the dirty value is regressed at every time of the walk
FitsDirtyAlways(isXvaTime) == TRUE

\* the dirty value is regressed at the xva times: if (isXvaTime)
FitsDirty(isXvaTime) == isXvaTime

\* the regressions fitted at one time of the backward walk
WalkFit(w, t) ==
    LET c == w.counter + 1
        isExerciseTime == t \in CalcExerciseTimes
        isXvaTime == t \in CalcXvaTimes
        w1 == IF exercise_ # NoExercise
              THEN [w EXCEPT !.coeffsUndExInto[c] =
                                 regressionCoefficients(w.pathValueUndExInto, AllPaths)]
              ELSE w
        exerciseValue == fittedValue(w1.coeffsUndExInto[c])
        continuation ==
            regressionCoefficients(w1.pathValueOption,
                                   [p \in CalSamples |-> exerciseValue[p] > 0])
        option == ExerciseUpdate(exerciseValue, fittedValue(continuation),
                                 w1.pathValueUndExInto, w1.pathValueOption)
        w2 == IF isExerciseTime
              THEN [w1 EXCEPT !.coeffsContinuationValue[c] = continuation,
                              !.pathValueOption = option,
                              !.coeffsOption[c] = regressionCoefficients(option, AllPaths)]
              ELSE w1
        w3 == IF FitsDirty(isXvaTime)
              THEN [w2 EXCEPT !.coeffsUndDirty[c] =
                                  regressionCoefficients(w2.pathValueUndDirty, AllPaths)]
              ELSE w2
        w4 == IF FitsOption
              THEN [w3 EXCEPT !.coeffsOption[c] =
                                  regressionCoefficients(w3.pathValueOption, AllPaths)]
              ELSE w3
        \* the locals at the point where the regressions of t are fitted
        step == [t |-> t, isExerciseTime |-> isExerciseTime, isXvaTime |-> isXvaTime,
                 counter |-> w.counter,
                 cfStatus |-> w.cfStatus, evaluations |-> w.evaluations,
                 pathValueUndDirty |-> w.pathValueUndDirty,
                 pathValueUndExInto |-> w.pathValueUndExInto,
                 optionBefore |-> w.pathValueOption,
                 pathValueOption |-> w4.pathValueOption,
                 exerciseValue |-> IF isExerciseTime THEN exerciseValue ELSE << >>,
                 continuationValue |->
                     IF isExerciseTime THEN fittedValue(continuation) ELSE << >>,
                 exercised |->
                     IF isExerciseTime
                     THEN ExerciseFilter(exerciseValue, fittedValue(continuation))
                     ELSE << >>]
    IN  IF w.error # "" THEN w
        ELSE [w4 EXCEPT !.counter = w.counter - 1, !.log = Append(@, step)]

\* (variant) the walk takes the earliest time first
NextWalkedEarliest(times) == SetMin(times)

\* the time the reverse iterator of the walk stands at: the latest not yet visited
NextWalked(times) == SetMax(times)

\* the backward walk over the exercise and xva times, latest first
RECURSIVE BackwardWalk(_, _, _, _)
BackwardWalk(w, times, pathValues, simulationTimes) ==
    IF times = {} THEN w
    ELSE LET t == NextWalked(times)
         IN  BackwardWalk(WalkFit(WalkFlows(w, 1, t, pathValues, simulationTimes), t),
                          times \ {t}, pathValues, simulationTimes)

\* (variant) the sweep adds every cash flow that is not done
SweepAddsNotDone(status) == status # "done"

\* (variant) there is no sweep after the walk
SweepAddsNothing(status) == FALSE

\* the sweep adds the cash flows that are still open
SweepAdds(status) == status = "open"

\* the cash flows still open after the walk are added to the underlying value
RECURSIVE AddRemaining(_, _, _, _)
AddRemaining(w, i, pathValues, simulationTimes) ==
    IF i > Len(w.cashflowInfo) THEN w
    ELSE AddRemaining(
             IF w.error = "" /\ SweepAdds(w.cfStatus[i])
             THEN IF cashflowPathValueError(w.cashflowInfo[i], pathValues, simulationTimes) # ""
                  THEN [w EXCEPT !.error = cashflowPathValueError(w.cashflowInfo[i], pathValues,
                                                                  simulationTimes),
                                 !.lookups = @ \cup Lookups(w.cashflowInfo[i])]
                  ELSE [w EXCEPT !.pathValueUndDirty =
                                     PathSum(@, cashflowPathValue(w.cashflowInfo[i], pathValues,
                                                                  simulationTimes)),
                                 !.evaluations[i] = @ + 1,
                                 !.lookups = @ \cup Lookups(w.cashflowInfo[i])]
             ELSE w,
             i + 1, pathValues, simulationTimes)

\* the locals of calculate() before the backward walk
WalkStart(infos, exerciseXvaTimes) ==
    [cashflowInfo |-> infos,
     cfStatus |-> [i \in DOMAIN infos |-> "open"],
     amountCache |-> [i \in DOMAIN infos |-> << >>],
     evaluations |-> [i \in DOMAIN infos |-> 0],
     pathValueUndDirty |-> ZeroPathValue,
     pathValueUndExInto |-> ZeroPathValue,
     pathValueOption |-> ZeroPathValue,
     coeffsUndDirty |-> [k \in 1..Cardinality(exerciseXvaTimes) |-> << >>],
     coeffsUndExInto |-> [k \in 1..Cardinality(exerciseXvaTimes) |-> << >>],
     coeffsContinuationValue |-> [k \in 1..Cardinality(exerciseXvaTimes) |-> << >>],
     coeffsOption |-> [k \in 1..Cardinality(exerciseXvaTimes) |-> << >>],
     counter |-> Cardinality(exerciseXvaTimes) - 1,
     log |-> << >>,
     lookups |-> {},
     error |-> ""]

\* (variant) the result value is always the option value
ResultValueOptionOnly(underlyingNpv, optionNpv) == optionNpv

\* the result value: the underlying value if no exercise is given, otherwise the
\* option value
ResultValue(underlyingNpv, optionNpv) ==
    IF exercise_ = NoExercise THEN underlyingNpv ELSE optionNpv

\* (variant) calculate() carries on without simulation times
EmptyGridAccepted(simulationTimes) == FALSE

\* QL_REQUIRE(!simulationTimes.empty())
EmptyGrid(simulationTimes) == simulationTimes = {}

\* calculate() fails: nothing is produced
CalculateFails(why, infos) ==
    /\ engine' = why
    /\ cashflowInfo' = infos
    /\ UNCHANGED << calcVars, exercised_, resultUnderlyingNpv_, walk >>

\* calculate(), on calibration paths with the states pathValues
Calculate(pathValues) ==
    LET infos == PopulateInfo(0, << >>)
        exerciseTimes == CalcExerciseTimes
        xvaTimes == CalcXvaTimes
        exerciseXvaTimes == exerciseTimes \cup xvaTimes
        simulationTimes == CalcCashflowGenTimes(infos) \cup exerciseTimes \cup xvaTimes
        paths == [j \in 1..Cardinality(simulationTimes) |-> pathValues]
        walked == AddRemaining(BackwardWalk(WalkStart(infos, exerciseXvaTimes),
                                            exerciseXvaTimes, paths, simulationTimes),
                               1, paths, simulationTimes)
    IN
    /\ engine = "new"
    /\ UNCHANGED << leg_, currency_, payer_, exercise_, optionSettlement_, simulationDates_,
                    dayCounter_, referenceDay, call, result, remembered, infoVars >>
    /\ IF Len(currency_) # Len(leg_)
       THEN CalculateFails("number of legs does not match currencies", << >>)
       ELSE IF Len(payer_) # Len(leg_)
       THEN CalculateFails("number of legs does not match payer flag", << >>)
       ELSE IF infos # << >> /\ infos[Len(infos)].error # ""
       THEN CalculateFails(infos[Len(infos)].error, infos)
       ELSE IF EmptyGrid(simulationTimes)
       THEN CalculateFails("no simulation times", infos)
       ELSE \E w \in {walked} :
            IF w.error # "" THEN CalculateFails(w.error, infos)
            ELSE \E underlyingNpv \in {expectation(w.pathValueUndDirty)} :
            /\ engine' = "done"
            /\ cashflowInfo' = infos
            /\ walk' = [paths |-> pathValues, steps |-> w.log,
                        cfStatus |-> w.cfStatus, evaluations |-> w.evaluations,
                        pathValueUndDirty |-> w.pathValueUndDirty, lookups |-> w.lookups]
            /\ resultUnderlyingNpv_' = underlyingNpv
            /\ resultValue_' = ResultValue(underlyingNpv, expectation(w.pathValueOption))
            \* amcCalculator_ = boost::make_shared<MultiLegBaseAmcCalculator>(...)
            /\ settlement_' = optionSettlement_
            /\ exerciseXvaTimes_' = exerciseXvaTimes
            /\ exerciseTimes_' = exerciseTimes
            /\ xvaTimes_' = xvaTimes
            /\ coeffsUndDirty_' = w.coeffsUndDirty
            /\ coeffsUndExInto_' = w.coeffsUndExInto
            /\ coeffsContinuationValue_' = w.coeffsContinuationValue
            /\ coeffsOption_' = w.coeffsOption
            /\ initialState_' = 0
            /\ exercised_' = << >>

\* the engine after construction and after the derived engine has set its data
InitCalc ==
    /\ leg_ \in UNION {[1..n -> SeqsUpTo(Flows, MaxFlows)] : n \in 1..MaxLegs}
    \* as many currencies and payer flags as legs, or MaxLegs of them
    /\ currency_ \in UNION {[1..n -> {0}] : n \in {Len(leg_), MaxLegs}}
    /\ payer_ \in UNION {[1..n -> {-1, 1}] : n \in {Len(leg_), MaxLegs}}
    /\ exercise_ \in {NoExercise} \cup {ExerciseOn(D) : D \in SetsUpTo(Days, MaxDates)}
    /\ optionSettlement_ = "Physical"
    /\ simulationDates_ \in SetsUpTo(Days \ {0}, MaxSimDates)
    /\ dayCounter_ \in DayCounters /\ referenceDay = ReferenceDay
    /\ cashflowInfo = << >> /\ resultUnderlyingNpv_ = 0 /\ engine = "new"
    /\ walk = NoWalk
    /\ cashflow = NoFlow /\ descriptor = NoInfo /\ evaluation = NoEvaluation
    \* no calculator yet
    /\ settlement_ = "none"
    /\ exerciseXvaTimes_ = {} /\ exerciseTimes_ = {} /\ xvaTimes_ = {}
    /\ coeffsUndDirty_ = << >> /\ coeffsUndExInto_ = << >>
    /\ coeffsContinuationValue_ = << >> /\ coeffsOption_ = << >>
    /\ resultValue_ = 0 /\ initialState_ = 0
    /\ exercised_ = << >>
    /\ call = NoCall
    /\ result = << >>
    /\ remembered = [effPaths |-> << >>, result |-> << >>, between |-> FALSE]

NextCalc == \E pathValues \in [CalSamples -> 0..MaxState] : Calculate(pathValues)

SpecCalc == InitCalc /\ [][NextCalc]_vars

\* the reference dates of the engines below: the 29th and the 30th
ReferenceDays == {ReferenceDay, ReferenceDay + 1}

\* cash flows of instruments whose amounts depend on the path: simple cash
\* flows, Ibor coupons and overnight indexed coupons accruing over one day
GridFlows ==
    {f \in Flows : f.kind = "SimpleCashFlow"}
    \cup {i \in IborCoupons : i.accrualStartDate = i.date - 1 /\ i.spread = 0}
    \cup {o \in AveragingCoupons : o.kind = "OvernightIndexedCoupon"}

\* engines for such instruments, received on either reference date, with an
\* exercise of at most one date
InitGrid ==
    /\ leg_ \in UNION {[1..n -> SeqsUpTo(GridFlows, MaxFlows)] : n \in 1..MaxLegs}
    /\ currency_ = [k \in DOMAIN leg_ |-> 0]
    /\ payer_ = [k \in DOMAIN leg_ |-> 1]
    /\ exercise_ \in {NoExercise} \cup {ExerciseOn(D) : D \in SetsUpTo(Days, 1)}
    /\ optionSettlement_ = "Physical"
    /\ simulationDates_ \in SetsUpTo(Days \ {0}, MaxSimDates)
    /\ dayCounter_ \in DayCounters
    \* Actual/365 (Fixed) counts the same from either reference date
    /\ referenceDay \in IF dayCounter_ = "Actual365Fixed" THEN {ReferenceDay} ELSE ReferenceDays
    /\ cashflowInfo = << >> /\ resultUnderlyingNpv_ = 0 /\ engine = "new"
    /\ walk = NoWalk
    /\ cashflow = NoFlow /\ descriptor = NoInfo /\ evaluation = NoEvaluation
    /\ settlement_ = "none"
    /\ exerciseXvaTimes_ = {} /\ exerciseTimes_ = {} /\ xvaTimes_ = {}
    /\ coeffsUndDirty_ = << >> /\ coeffsUndExInto_ = << >>
    /\ coeffsContinuationValue_ = << >> /\ coeffsOption_ = << >>
    /\ resultValue_ = 0 /\ initialState_ = 0
    /\ exercised_ = << >>
    /\ call = NoCall
    /\ result = << >>
    /\ remembered = [effPaths |-> << >>, result |-> << >>, between |-> FALSE]

SpecGrid == InitGrid /\ [][NextCalc]_vars

\* an engine with one leg runs calculate(), and the calculator it built is replayed
InitChain ==
    /\ InitCalc
    /\ Len(leg_) = 1 /\ Len(currency_) = 1 /\ payer_ = << 1 >>

NextChain ==
    \/ NextCalc
    \/ engine = "done" /\ Next

SpecChain == InitChain /\ [][NextChain]_vars

\* the same for an engine of InitGrid with one leg
InitGridChain == InitGrid /\ Len(leg_) = 1

SpecGridChain == InitGridChain /\ [][NextChain]_vars

\* calibration and replay side by side: an engine runs calculate(), or a given
\* calculator (one of Init, whose engine is not modelled) is replayed
GivenCalculator == leg_ = << >>

NextBoth ==
    \/ NextCalc
    \/ GivenCalculator /\ Next

SpecBoth == (Init \/ InitCalc) /\ [][NextBoth]_vars


(* ------------- createCashflowInfo and the amount function ---------------- *)

\* an engine with a model, and one cash flow that is alive today
InitInfo ==
    /\ cashflow \in InfoFlows
    /\ descriptor = NoInfo /\ evaluation = NoEvaluation
    /\ dayCounter_ \in DayCounters /\ referenceDay = ReferenceDay
    /\ leg_ = << >> /\ currency_ = << >> /\ payer_ = << >>
    /\ exercise_ = NoExercise /\ optionSettlement_ = "Physical" /\ simulationDates_ = {}
    /\ cashflowInfo = << >> /\ resultUnderlyingNpv_ = 0 /\ engine = "new"
    /\ walk = NoWalk
    /\ settlement_ = "none"
    /\ exerciseXvaTimes_ = {} /\ exerciseTimes_ = {} /\ xvaTimes_ = {}
    /\ coeffsUndDirty_ = << >> /\ coeffsUndExInto_ = << >>
    /\ coeffsContinuationValue_ = << >> /\ coeffsOption_ = << >>
    /\ resultValue_ = 0 /\ initialState_ = 0
    /\ exercised_ = << >>
    /\ call = NoCall
    /\ result = << >>
    /\ remembered = NoRun

\* createCashflowInfo(flow, payCcy, payer, legNo, cfNo)
CreateCashflowInfo(payer) ==
    /\ cashflow # NoFlow /\ descriptor = NoInfo
    /\ descriptor' = createCashflowInfo(cashflow, 0, payer, 0, 0)
    /\ UNCHANGED << calcVars, exercised_, call, result, remembered, engineVars,
                    cashflow, evaluation >>

\* the states cashflowPathValue collects for a descriptor: one row for each
\* simulation time, one state in it for each model index of that time
DeclaredStates(info) ==
    {s \in [DOMAIN info.simulationTimes -> SeqsUpTo(StateVals, 2)] :
        \A k \in DOMAIN s : Len(s[k]) = Len(info.modelIndices[k])}

\* info.amountCalculator(n, states), called as cashflowPathValue calls it
EvaluateAmount(states) ==
    /\ descriptor # NoInfo /\ descriptor.error = "" /\ evaluation = NoEvaluation
    /\ evaluation' = amountCalculator(descriptor, states)
    /\ UNCHANGED << calcVars, exercised_, call, result, remembered, engineVars,
                    cashflow, descriptor >>

NextInfo ==
    \/ \E payer \in {-1, 1} : CreateCashflowInfo(payer)
    \/ descriptor # NoInfo /\ \E states \in DeclaredStates(descriptor) : EvaluateAmount(states)

SpecInfo == InitInfo /\ [][NextInfo]_vars


(* ---------------------- properties of calculate() ----------------------- *)

CalculateOk == engine = "done"

\* C9: for an instrument with no exercise schedule, the reference date option
\* value calculate() returns (resultValue_) equals the reference date underlying
\* value (resultUnderlyingNpv_) exactly.
C9_NoExerciseValueIsUnderlying ==
    CalculateOk /\ exercise_ = NoExercise => resultValue_ = resultUnderlyingNpv_

\* calculate() has priced an instrument without exercise whose underlying value
\* is not zero
C9_Witness ==
    /\ CalculateOk /\ exercise_ = NoExercise
    /\ resultUnderlyingNpv_ # 0
    /\ resultValue_ = resultUnderlyingNpv_

\* the descriptors createCashflowInfo returned
Returned == {i \in DOMAIN cashflowInfo : cashflowInfo[i].error = ""}

\* C10: every descriptor createCashflowInfo returns has its exercise-into cutoff
\* time at or before its pay time; so at every grid time t of the backward walk
\* a cutoff after t implies a pay time after t.
C10_CutoffNotAfterPayTime ==
    \A i \in Returned :
        /\ cashflowInfo[i].exIntoCriterionTime <= cashflowInfo[i].payTime
        /\ CalculateOk =>
              \A t \in exerciseXvaTimes_ :
                  cashflowInfo[i].exIntoCriterionTime > t => cashflowInfo[i].payTime > t


(* ------------------------------- C16 ----------------------------------- *)

\* the alive cash flows of a leg, in order
AliveSeq(leg) == SelectSeq(leg, LAMBDA f : f.date > today_)

\* the cash flow a descriptor was made for
FlowOf(info) == AliveSeq(leg_[info.legNo + 1])[info.cfNo + 1]

Unhandled(f) == f.kind = "OtherCoupon"
AccrualViolated(f) == f.kind \in CouponKinds /\ f.accrualStartDate >= f.date

HasUnhandled ==
    \E l \in DOMAIN leg_ : \E k \in DOMAIN leg_[l] :
        leg_[l][k].date > today_ /\ Unhandled(leg_[l][k])

SizesAgree == Len(currency_) = Len(leg_) /\ Len(payer_) = Len(leg_)

\* calculate() generated no path, fitted no regression, set no result value and
\* constructed no calculator
NothingProduced ==
    /\ walk = NoWalk
    /\ resultValue_ = 0 /\ resultUnderlyingNpv_ = 0
    /\ settlement_ = "none" /\ exerciseXvaTimes_ = {}
    /\ coeffsUndDirty_ = << >> /\ coeffsUndExInto_ = << >>
    /\ coeffsContinuationValue_ = << >> /\ coeffsOption_ = << >>

CalculateFailed == engine \notin {"new", "done"}

\* the last descriptor: the one createCashflowInfo failed on, if it failed
LastInfo == cashflowInfo[Len(cashflowInfo)]

\* C16 as stated: if any alive cash flow has none of the supported shapes,
\* calculate() fails with the unhandled-coupon error naming leg and cash flow,
\* before any path is simulated, regression fitted or calculator constructed.
C16_UnhandledCouponFails ==
    (engine # "new" /\ HasUnhandled) =>
        /\ engine = "unhandled coupon"
        /\ Unhandled(FlowOf(LastInfo))
        /\ NothingProduced

\* C16 (amended): if any alive cash flow has none of the supported shapes,
\* calculate() fails before any path is simulated, regression fitted or
\* calculator constructed.  The error is the size error if currencies or payer
\* flags disagree with the legs in number; otherwise it is the error of the first
\* alive cash flow, in leg order, that createCashflowInfo rejects: the
\* unhandled-coupon error naming that leg and cash flow, unless that flow is a
\* coupon whose accrual starts on or after its pay date.
C16_FirstRejectedFlowDecides ==
    (engine # "new" /\ HasUnhandled) =>
        /\ CalculateFailed
        /\ NothingProduced
        /\ ~SizesAgree =>
               engine \in {"number of legs does not match currencies",
                           "number of legs does not match payer flag"}
        /\ SizesAgree =>
               /\ cashflowInfo # << >>
               /\ \A i \in 1..(Len(cashflowInfo) - 1) :
                      /\ cashflowInfo[i].error = ""
                      /\ ~Unhandled(FlowOf(cashflowInfo[i]))
                      /\ ~AccrualViolated(FlowOf(cashflowInfo[i]))
               /\ IF AccrualViolated(FlowOf(LastInfo))
                  THEN engine = "accrual start date >= pay date"
                  ELSE /\ engine = "unhandled coupon"
                       /\ Unhandled(FlowOf(LastInfo))

\* the unhandled coupon is in the second leg, after a cash flow that was classified
C16_Witness ==
    /\ engine = "unhandled coupon" /\ NothingProduced
    /\ Len(cashflowInfo) = 2
    /\ LastInfo.legNo = 1 /\ LastInfo.cfNo = 0
    /\ Unhandled(FlowOf(LastInfo))

(* ------------------------------- C17 ----------------------------------- *)

\* no cash flow is alive, no exercise date and no simulation date is in the future
NoFutureDate ==
    /\ \A l \in DOMAIN leg_ : \A k \in DOMAIN leg_[l] : leg_[l][k].date <= today_
    /\ \A d \in exercise_.dates : d <= today_
    /\ simulationDates_ = {}

\* C17: calculate() fails without result values and without a calculator when
\* currencies or payer flags differ in number from the legs, before any cash flow
\* is classified, or when the merged simulation time grid is empty, before any
\* path is generated.
C17_SizeAndGridChecks ==
    engine # "new" =>
        /\ ~SizesAgree =>
               /\ engine = IF Len(currency_) # Len(leg_)
                           THEN "number of legs does not match currencies"
                           ELSE "number of legs does not match payer flag"
               /\ cashflowInfo = << >>
               /\ NothingProduced
        /\ (SizesAgree /\ NoFutureDate) =>
               /\ engine = "no simulation times"
               /\ NothingProduced

\* the grid is empty although the legs hold cash flows (all paid) and an exercise
\* is given (all dates passed)
C17_Witness ==
    /\ engine = "no simulation times" /\ NothingProduced
    /\ SizesAgree
    /\ \E l \in DOMAIN leg_ : leg_[l] # << >>
    /\ exercise_ # NoExercise /\ exercise_.dates # {}

(* ------------------------------- C19 ----------------------------------- *)

\* the status of cash flow i and the number of evaluations of its amount: before
\* the walk, at each step of the walk, and after the sweep
StatusHistory(i) ==
    << "open" >> \o [m \in DOMAIN walk.steps |-> walk.steps[m].cfStatus[i]]
                 \o << walk.cfStatus[i] >>
EvaluationHistory(i) ==
    << 0 >> \o [m \in DOMAIN walk.steps |-> walk.steps[m].evaluations[i]]
            \o << walk.evaluations[i] >>

StatusMoves == {<< "open", "done" >>, << "open", "cached" >>, << "cached", "done" >>}

\* C19: in one calibration the amount of each alive cash flow is evaluated at
\* most once; its status only moves open -> done, open -> cached or
\* cached -> done, and a cached or done cash flow is never valued again.
C19_EvaluatedAtMostOnce ==
    CalculateOk =>
        \A i \in DOMAIN cashflowInfo :
            LET st == StatusHistory(i)
                ev == EvaluationHistory(i)
            IN  /\ walk.evaluations[i] <= 1
                /\ \A m \in 1..(Len(st) - 1) :
                       /\ st[m + 1] = st[m] \/ << st[m], st[m + 1] >> \in StatusMoves
                       /\ ev[m + 1] >= ev[m]
                       /\ ev[m + 1] > ev[m] => st[m] = "open"

\* one cash flow went open -> cached -> done during the walk, another was still
\* cached when the sweep ran
C19_Witness ==
    /\ CalculateOk
    /\ \E i \in DOMAIN cashflowInfo : \E m \in DOMAIN walk.steps :
           /\ walk.steps[m].cfStatus[i] = "cached"
           /\ walk.cfStatus[i] = "done"
           /\ walk.evaluations[i] = 1
    /\ \E i \in DOMAIN cashflowInfo :
           walk.cfStatus[i] = "cached" /\ walk.evaluations[i] = 1

(* ------------------------------- C20 ----------------------------------- *)

\* the deflated amount of descriptor i on calibration path p
DeflatedAmount(i, p) ==
    NumCalSamples * cashflowInfo[i].amountCalculator.amount * cashflowInfo[i].payer
        * Discount(walk.paths[p])

\* the sum of the deflated amounts of the descriptors in I on path p
RECURSIVE SumOver(_, _)
SumOver(I, p) ==
    IF I = {} THEN 0
    ELSE LET i == CHOOSE i \in I : TRUE IN DeflatedAmount(i, p) + SumOver(I \ {i}, p)

\* C20: at every grid time t of the backward walk, when the regressions of t are
\* fitted, the dirty value is the sum of the deflated amounts of exactly the
\* alive cash flows with pay time > t, each counted once.
C20_DirtyValueAtGridTime ==
    CalculateOk =>
        \A m \in DOMAIN walk.steps : \A p \in CalSamples :
            walk.steps[m].pathValueUndDirty[p] =
                SumOver({i \in DOMAIN cashflowInfo :
                            cashflowInfo[i].payTime > walk.steps[m].t}, p)


(* ------------------------------- C11 ----------------------------------- *)

\* exercise and continuation value of the j-th exercise time on path p of the
\* last call, both times the denominator of the interpolated state
ExerciseValueAt(j, p) ==
    LET s == InterpolatedState(ExTime(j), call.effPaths)
        r == Rank(ExTime(j), exerciseXvaTimes_) + 1
    IN  coeffsUndExInto_[r][1] * s.den + coeffsUndExInto_[r][2] * s.num[p]
ContinuationValueAt(j, p) ==
    LET s == InterpolatedState(ExTime(j), call.effPaths)
        r == Rank(ExTime(j), exerciseXvaTimes_) + 1
    IN  coeffsContinuationValue_[r][1] * s.den + coeffsContinuationValue_[r][2] * s.num[p]

\* the j-th exercise time is not after the last valuation time
Decided(j) == \E u \in xvaTimes_ : u >= ExTime(j)

\* C11: exercise is triggered, in the update of the option value in calibration
\* and in the indicator of the replay, only where exercise value > continuation
\* value and exercise value > 0 hold strictly; with a tie, a zero or a negative
\* exercise value the path is not exercised at that time.
C11_StrictExerciseTrigger ==
    /\ FreshRunOk =>
           \A p \in Samples : \A j \in 1..NumEx :
               Indicator(j, p) =>
                   /\ Decided(j)
                   /\ ExerciseValueAt(j, p) > ContinuationValueAt(j, p)
                   /\ ExerciseValueAt(j, p) > 0
    /\ CalculateOk =>
           \A m \in DOMAIN walk.steps :
               LET st == walk.steps[m]
               IN  IF st.isExerciseTime
                   THEN \A p \in CalSamples :
                            /\ st.exercised[p] =>
                                   /\ st.exerciseValue[p] > st.continuationValue[p]
                                   /\ st.exerciseValue[p] > 0
                            /\ st.pathValueOption[p] =
                                   IF st.exercised[p] THEN st.pathValueUndExInto[p]
                                   ELSE st.optionBefore[p]
                   ELSE st.pathValueOption = st.optionBefore

\* a replay in which a path that has not exercised before ties at a positive
\* exercise value and is not exercised
C11_Witness ==
    /\ FreshRunOk
    /\ \E p \in Samples : \E j \in 1..NumEx :
           /\ Decided(j)
           /\ ~Indicator(j - 1, p)
           /\ ExerciseValueAt(j, p) = ContinuationValueAt(j, p)
           /\ ExerciseValueAt(j, p) > 0
           /\ ~Indicator(j, p)


(* ------------------------------- C18 ----------------------------------- *)

FxLinked(f) == f.kind \in {"FXLinkedCashFlow", "FloatingRateFXLinkedNotionalCoupon"}

InfoCreated == descriptor # NoInfo /\ descriptor.error = ""
AmountEvaluated == evaluation # NoEvaluation

\* a descriptor was created for an FX linked cash flow whose FX fixing date is
\* not after the reference date
PastFxFixing == InfoCreated /\ FxLinked(cashflow) /\ cashflow.fxFixingDate <= today_

\* the amount function read only slots that were handed over, none of them a
\* simulated FX state
ReadNoFxState ==
    \A slot \in evaluation.reads :
        /\ HasSlot(evaluation.states, slot)
        /\ descriptor.modelIndices[slot[1] + 1][slot[2] + 1][1] # "FX"

\* the coupon inside the wrappers of the cash flow handed over
Terminal == Unwrapped(cashflow).flow

\* the cap and the floor of the cash flow handed over, and whether it is a naked
\* option
CapOf == Unwrapped(cashflow).effCap
FloorOf == Unwrapped(cashflow).effFloor
IsNaked == Unwrapped(cashflow).isNakedOption
IsCapFloored == Unwrapped(cashflow).isCapFloored

\* the fixing of the index the amount is computed from: the known one, or the
\* one the model gives in the state of the first simulation time
FixingUsed ==
    IF Terminal.fixingDate <= today_
    THEN (Terminal.rate - Terminal.spread) \div Terminal.gearing
    ELSE lgmFixing(evaluation.states[1][1])

SwapletRate == IF IsNaked THEN 0 ELSE Terminal.gearing * FixingUsed + Terminal.spread
FloorletRate ==
    IF FloorOf = Null THEN 0 ELSE Terminal.gearing * Max0(FloorOf[1] - FixingUsed)
CapletRate ==
    IF CapOf = Null THEN 0 ELSE Terminal.gearing * Max0(FixingUsed - CapOf[1])

\* the effective rate of the coupon: the floor adds and the cap subtracts, but
\* for a naked option without floor the cap adds
RateExpected ==
    IF Terminal.kind \in AveragingKinds THEN lgmCouponRate(evaluation.states[1][1])
    ELSE IF ~IsCapFloored THEN Terminal.gearing * FixingUsed + Terminal.spread
    ELSE IF IsNaked /\ FloorOf = Null THEN SwapletRate + FloorletRate + CapletRate
    ELSE SwapletRate + FloorletRate - CapletRate

\* the amount at the FX rate known from the fixing of the FX index
AmountAtKnownFxRate ==
    IF cashflow.kind = "FXLinkedCashFlow"
    THEN cashflow.foreignAmount * FxIndexFixing
    ELSE cashflow.foreignAmount * Terminal.accrualPeriod * RateExpected * FxIndexFixing

UsedKnownFxRate ==
    /\ evaluation.error = ""
    /\ evaluation.den = 1
    /\ evaluation.num = AmountAtKnownFxRate
    /\ ReadNoFxState

\* the simulation time a coupon declares for its own fixing: that of the fixing
\* date of an Ibor or CMS coupon if that is still to come, and that of the first
\* value or fixing date, but not before the reference date, of a coupon on
\* overnight, BMA or sub-period fixings
OwnFixingTimes ==
    IF Terminal.kind \in AveragingKinds
    THEN << TimeNotBeforeToday(Terminal.fixingDate) >>
    ELSE IF Terminal.kind \in FixingKinds /\ Terminal.fixingDate > today_
    THEN << time(Terminal.fixingDate) >>
    ELSE << >>

\* C18 as stated: for an FX linked cash flow whose FX fixing date is on or before
\* the reference date the amount function uses the known FX rate, reads no
\* simulated FX state, and the simulation time list of the descriptor is empty
C18_PastFxFixingNoSimulationTime ==
    PastFxFixing =>
        /\ descriptor.simulationTimes = << >>
        /\ AmountEvaluated => UsedKnownFxRate

\* C18: for an FX linked cash flow whose FX fixing date is on or before the
\* reference date the amount function uses the known FX rate and reads no
\* simulated FX state, and the descriptor declares no simulation time for the FX
\* fixing: its list holds the time the wrapped coupon declares for its own
\* fixing, with an interest rate state, and nothing else; it is empty for an FX
\* linked cash flow and for a wrapped Ibor or CMS coupon whose fixing date is on
\* or before the reference date as well
C18_PastFxFixingNoFxSimulationTime ==
    PastFxFixing =>
        /\ descriptor.simulationTimes = OwnFixingTimes
        /\ Len(descriptor.modelIndices) = Len(descriptor.simulationTimes)
        /\ \A k \in DOMAIN descriptor.modelIndices :
               descriptor.modelIndices[k] = << pIdx("IR", Terminal.indexCcyIdx) >>
        /\ AmountEvaluated => UsedKnownFxRate

\* an FX linked notional coupon with a past FX fixing and a future rate fixing:
\* its amount was evaluated at the known FX rate from the state of the one
\* simulation time it declares
C18_Witness ==
    /\ PastFxFixing /\ AmountEvaluated
    /\ cashflow.kind = "FloatingRateFXLinkedNotionalCoupon"
    /\ cashflow.fxSourceCcyIdx > 0
    /\ descriptor.simulationTimes # << >>
    /\ evaluation.reads = {<< 0, 0 >>}
    /\ evaluation.num = AmountAtKnownFxRate


(* ------------------------------- C21 ----------------------------------- *)

\* the status of cash flow i before step m of the walk
StatusBefore(i, m) == IF m = 1 THEN "open" ELSE walk.steps[m - 1].cfStatus[i]

\* C21: at every grid time t of the backward walk, when the regressions of t are
\* fitted, the exercise-into value is the sum of the deflated amounts of exactly
\* the alive cash flows whose exercise-into cutoff time is > t, each counted
\* once; a cash flow that is cached has its cutoff at or before t, and it is
\* added, with the amount cached and without a new evaluation, at the first
\* time visited that lies before its cutoff.
C21_ExIntoValueAtGridTime ==
    CalculateOk =>
        \A m \in DOMAIN walk.steps :
            LET st == walk.steps[m]
            IN  /\ \A p \in CalSamples :
                       st.pathValueUndExInto[p] =
                           SumOver({i \in DOMAIN cashflowInfo :
                                       cashflowInfo[i].exIntoCriterionTime > st.t}, p)
                /\ \A i \in DOMAIN cashflowInfo :
                       /\ st.cfStatus[i] = "cached" =>
                              cashflowInfo[i].exIntoCriterionTime <= st.t
                       /\ StatusBefore(i, m) = "cached"
                          /\ cashflowInfo[i].exIntoCriterionTime > st.t =>
                              /\ st.cfStatus[i] = "done"
                              /\ st.evaluations[i] = walk.steps[m - 1].evaluations[i]

\* a cash flow is cached at one grid time and enters the exercise-into value at
\* the next one visited, while another cash flow stays cached there
C21_Witness ==
    /\ CalculateOk
    /\ \E i, k \in DOMAIN cashflowInfo : \E m \in DOMAIN walk.steps :
           /\ m + 1 \in DOMAIN walk.steps
           /\ walk.steps[m].cfStatus[i] = "cached"
           /\ walk.steps[m + 1].cfStatus[i] = "done"
           /\ walk.steps[m].cfStatus[k] = "cached"
           /\ walk.steps[m + 1].cfStatus[k] = "cached"
           /\ \E p \in CalSamples :
                  walk.steps[m + 1].pathValueUndExInto[p]
                      # walk.steps[m].pathValueUndExInto[p]


(* ------------------------------- C22 ----------------------------------- *)

\* the number of cash flows of the legs from leg l on that pay after the
\* reference date
RECURSIVE NumAlive(_)
NumAlive(l) == IF l > Len(leg_) THEN 0 ELSE Len(AliveSeq(leg_[l])) + NumAlive(l + 1)

\* the sum of x over the calibration paths in P
RECURSIVE PathTotal(_, _)
PathTotal(x, P) ==
    IF P = {} THEN 0 ELSE LET p == CHOOSE p \in P : TRUE IN x[p] + PathTotal(x, P \ {p})

\* C22: when calibration finishes, every cash flow paying after the reference
\* date has been added to the dirty value exactly once, in the walk or in the
\* sweep after it, and the cash flows paying on or before the reference date
\* have been added to nothing: they have no descriptor; the underlying value is
\* the expectation of that complete sum.
C22_DirtyValueComplete ==
    CalculateOk =>
        /\ Len(cashflowInfo) = NumAlive(1)
        /\ \A i \in DOMAIN cashflowInfo :
               /\ FlowOf(cashflowInfo[i]).date > today_
               /\ cashflowInfo[i].payTime = time(FlowOf(cashflowInfo[i]).date)
               /\ walk.evaluations[i] = 1
        /\ \A p \in CalSamples :
               walk.pathValueUndDirty[p] = SumOver(DOMAIN cashflowInfo, p)
        /\ NumCalSamples * resultUnderlyingNpv_ = PathTotal(walk.pathValueUndDirty, CalSamples)

\* two legs, one with a cash flow paying on the reference date, the other with a
\* cash flow that is still open when the walk ends and is added by the sweep
C22_Witness ==
    /\ CalculateOk
    /\ \E l \in DOMAIN leg_ : \E k \in DOMAIN leg_[l] : leg_[l][k].date = today_
    /\ walk.steps # << >>
    /\ \E i \in DOMAIN cashflowInfo : walk.cfStatus[i] = "open"
    /\ resultUnderlyingNpv_ # 0


(* ------------------------------- C23 ----------------------------------- *)

\* the regressed exercise and continuation value at step m on path p, from the
\* coefficients handed to the calculator
RegressedExerciseValue(m, p) == coeffsUndExInto_[walk.steps[m].counter + 1][1]
RegressedContinuationValue(m, p) == coeffsContinuationValue_[walk.steps[m].counter + 1][1]

\* the option value on path p before step m
OptionValueBefore(m, p) == IF m = 1 THEN 0 ELSE walk.steps[m - 1].pathValueOption[p]

\* C23: at an exercise time of the backward walk the option value becomes, path
\* by path, the path's exercise-into value exactly where the regressed exercise
\* value exceeds both the regressed continuation value and zero, and is left as
\* it was on all other paths; at grid times that are not exercise times the
\* option value does not change.
C23_OptionValueUpdate ==
    CalculateOk =>
        \A m \in DOMAIN walk.steps : \A p \in CalSamples :
            LET st == walk.steps[m]
            IN  st.pathValueOption[p] =
                    IF /\ st.isExerciseTime
                       /\ RegressedExerciseValue(m, p) > RegressedContinuationValue(m, p)
                       /\ RegressedExerciseValue(m, p) > 0
                    THEN st.pathValueUndExInto[p]
                    ELSE OptionValueBefore(m, p)

\* the walk exercises at an exercise time on a path whose exercise-into value is
\* not the regressed one, and later visits a time that is not an exercise time
\* with that option value
C23_Witness ==
    /\ CalculateOk
    /\ \E m \in DOMAIN walk.steps : \E p \in CalSamples :
           /\ walk.steps[m].isExerciseTime
           /\ RegressedExerciseValue(m, p) > RegressedContinuationValue(m, p)
           /\ RegressedExerciseValue(m, p) > 0
           /\ walk.steps[m].pathValueUndExInto[p] # RegressedExerciseValue(m, p)
           /\ walk.steps[m].pathValueOption[p] # OptionValueBefore(m, p)
           /\ m + 1 \in DOMAIN walk.steps
           /\ ~walk.steps[m + 1].isExerciseTime
           /\ walk.steps[m + 1].pathValueOption[p] # 0


(* ------------------------------- C24 ----------------------------------- *)

\* calculate() went through with no exercise time on the grid
CalibratedWithoutExerciseTimes == CalculateOk /\ exerciseTimes_ = {}

\* the regression of the dirty value fitted at step m
DirtyRegression(m) == regressionCoefficients(walk.steps[m].pathValueUndDirty, AllPaths)

\* C24 as stated: if no exercise dates exist at all, calibration still produces
\* the option value coefficients at the grid times, and they are those of the
\* dirty value.
C24_OptionRegressionWithoutExercise ==
    CalibratedWithoutExerciseTimes =>
        \A m \in DOMAIN walk.steps :
            /\ coeffsOption_[walk.steps[m].counter + 1] # << >>
            /\ coeffsOption_[walk.steps[m].counter + 1] = DirtyRegression(m)

\* C24: if no exercise schedule is given, calibration produces no option value
\* coefficients at any grid time and the result value is the underlying value; if
\* a schedule is given that has no date after the reference date, it produces
\* option value coefficients at every grid time, those of an option value that is
\* zero on every path, and the result value is zero. In both cases the dirty
\* value coefficients are produced at every grid time.
C24_OptionRegressionNeedsSchedule ==
    CalibratedWithoutExerciseTimes =>
        /\ \A m \in DOMAIN walk.steps :
               LET c == walk.steps[m].counter + 1
               IN  /\ coeffsOption_[c] = IF exercise_ = NoExercise THEN << >> ELSE << 0, 0 >>
                   /\ coeffsContinuationValue_[c] = << >>
                   /\ coeffsUndDirty_[c] = DirtyRegression(m)
        /\ Len(coeffsOption_) = Len(walk.steps)
        /\ resultValue_ = IF exercise_ = NoExercise THEN resultUnderlyingNpv_ ELSE 0

\* an instrument without exercise schedule was calibrated on a grid where its
\* dirty value is not zero: no option value coefficients exist
C24_Witness ==
    /\ CalibratedWithoutExerciseTimes /\ exercise_ = NoExercise
    /\ walk.steps # << >>
    /\ \A m \in DOMAIN walk.steps :
           /\ DirtyRegression(m) # << 0, 0 >>
           /\ coeffsUndDirty_[walk.steps[m].counter + 1] = DirtyRegression(m)
           /\ coeffsOption_[walk.steps[m].counter + 1] = << >>


(* ------------------------------- C25 ----------------------------------- *)

\* an Array of coefficients that was assigned
Populated(coeffs) == coeffs # << >>

\* the rank, counted from 1, of a grid time in the tables of the calculator
TableRank(t) == Rank(t, exerciseXvaTimes_) + 1

\* C25: in the coefficient tables calibration produces, the dirty value
\* coefficients are populated at a grid time if and only if it is a valuation
\* time, and the exercise-into coefficients are populated at every time of the
\* grid of exercise and valuation times whenever an exercise date exists.
C25_DirtyAndExIntoCoefficients ==
    CalculateOk =>
        /\ Len(coeffsUndDirty_) = Cardinality(exerciseXvaTimes_)
        /\ Len(coeffsUndExInto_) = Cardinality(exerciseXvaTimes_)
        /\ \A t \in exerciseXvaTimes_ :
               /\ Populated(coeffsUndDirty_[TableRank(t)]) <=> t \in xvaTimes_
               /\ (exercise_ # NoExercise /\ exercise_.dates # {}) =>
                      Populated(coeffsUndExInto_[TableRank(t)])

\* a grid with an exercise time that is no valuation time and a valuation time
\* that is no exercise time, on which the dirty value is not zero
C25_Witness ==
    /\ CalculateOk
    /\ \E t \in exerciseTimes_ \ xvaTimes_ : \E u \in xvaTimes_ \ exerciseTimes_ :
           /\ ~Populated(coeffsUndDirty_[TableRank(t)])
           /\ Populated(coeffsUndExInto_[TableRank(t)])
           /\ Populated(coeffsUndExInto_[TableRank(u)])
           /\ Populated(coeffsUndDirty_[TableRank(u)])
           /\ coeffsUndDirty_[TableRank(u)] # << 0, 0 >>


(* ------------------------------- C26 ----------------------------------- *)

\* there are exercise times and the grid time lies before the earliest of them
BeforeEarliestExercise(t) == exerciseTimes_ # {} /\ \A e \in exerciseTimes_ : t < e

\* C26 as stated: continuation value and option value coefficients are populated
\* only at grid times from the earliest exercise time onward, not at grid times
\* before it.
C26_NoCoefficientsBeforeFirstExercise ==
    CalculateOk =>
        \A t \in exerciseXvaTimes_ :
            BeforeEarliestExercise(t) =>
                /\ ~Populated(coeffsContinuationValue_[TableRank(t)])
                /\ ~Populated(coeffsOption_[TableRank(t)])

\* C26: the continuation value coefficients are populated exactly at the exercise
\* times, so at no grid time before the earliest exercise time; the option value
\* coefficients are populated at every grid time, the ones before the earliest
\* exercise time included, if an exercise schedule is given, and at none if not.
C26_ContinuationAtExerciseOptionEverywhere ==
    CalculateOk =>
        /\ Len(coeffsContinuationValue_) = Cardinality(exerciseXvaTimes_)
        /\ Len(coeffsOption_) = Cardinality(exerciseXvaTimes_)
        /\ \A t \in exerciseXvaTimes_ :
               /\ Populated(coeffsContinuationValue_[TableRank(t)]) <=> t \in exerciseTimes_
               /\ Populated(coeffsOption_[TableRank(t)]) <=> exercise_ # NoExercise
               /\ BeforeEarliestExercise(t) =>
                      ~Populated(coeffsContinuationValue_[TableRank(t)])

\* a valuation time before the earliest exercise time, with option value
\* coefficients of an option that is not worthless and no continuation value
\* coefficients
C26_Witness ==
    /\ CalculateOk
    /\ exerciseTimes_ # {}
    /\ \E t \in xvaTimes_ :
           /\ BeforeEarliestExercise(t)
           /\ ~Populated(coeffsContinuationValue_[TableRank(t)])
           /\ Populated(coeffsOption_[TableRank(t)])
           /\ coeffsOption_[TableRank(t)] # << 0, 0 >>


(* ------------------------------- C27 ----------------------------------- *)

\* a descriptor was created for a coupon of a terminal kind, wrapped or not
TerminalCoupon == InfoCreated /\ Terminal.kind \in FixingKinds \cup AveragingKinds

\* the descriptor declares a simulation time with the interest rate state of the
\* index currency: the one of the coupon's own fixing, which comes first
OwnFixingDeclared ==
    /\ descriptor.simulationTimes # << >>
    /\ descriptor.modelIndices[1] = << pIdx("IR", Terminal.indexCcyIdx) >>

\* the FX fixing of the wrapper is still to come
FxFixingToCome ==
    cashflow.kind = "FloatingRateFXLinkedNotionalCoupon" /\ cashflow.fxFixingDate > today_

\* C27 as stated: for every terminal coupon kind the descriptor declares a
\* simulation time and index set for the coupon's own fixing only when that
\* fixing date is in the future, and none when the fixing is already known.
C27_OwnFixingDeclaredOnlyIfFuture ==
    TerminalCoupon => (OwnFixingDeclared <=> Terminal.fixingDate > today_)

\* C27: for Ibor and CMS coupons, capped and floored or not, the descriptor
\* declares the time of the coupon's own fixing, with the interest rate state of
\* the index currency, exactly when the fixing date is after the reference
\* date; for coupons on overnight, BMA and sub-period fixings it always declares
\* the time of the first value or fixing date, taken as the reference date when
\* that date is not after it. Besides, only the time of a future FX fixing of
\* the wrapper is declared.
C27_OwnFixingDeclaredByKind ==
    TerminalCoupon =>
        /\ IF Terminal.kind \in FixingKinds
           THEN /\ OwnFixingDeclared <=> Terminal.fixingDate > today_
                /\ OwnFixingDeclared =>
                       descriptor.simulationTimes[1] = time(Terminal.fixingDate)
           ELSE /\ OwnFixingDeclared
                /\ descriptor.simulationTimes[1] =
                       IF Terminal.fixingDate > today_ THEN time(Terminal.fixingDate) ELSE 0
        /\ Len(descriptor.simulationTimes) =
               (IF OwnFixingDeclared THEN 1 ELSE 0) + (IF FxFixingToCome THEN 1 ELSE 0)
        /\ Len(descriptor.modelIndices) = Len(descriptor.simulationTimes)

\* an overnight coupon whose first value date is the reference date: the time 0
\* is declared and the amount was computed from the state handed over for it
C27_Witness ==
    /\ TerminalCoupon /\ AmountEvaluated
    /\ cashflow.kind = "OvernightIndexedCoupon"
    /\ cashflow.fixingDate = today_
    /\ descriptor.simulationTimes = << 0 >>
    /\ evaluation.reads = {<< 0, 0 >>}
    /\ evaluation.error = ""


(* ------------------------------- C28 ----------------------------------- *)

\* the kind of state the amount function takes a slot for: an FX linked cash flow
\* reads FX states only; a coupon reads the interest rate state of its own
\* fixing in row 0 and the FX states of the wrapper in row 1
ReadAs(slot) ==
    IF cashflow.kind = "FXLinkedCashFlow" \/ slot[1] = 1 THEN "FX" ELSE "IR"

\* C28: every amount function can be evaluated from the states its descriptor
\* declared: a slot [k][j] it reads lies within the simulation times and model
\* indices declared, and the slot read as FX state is one declared for the FX
\* fixing time; for every combination of known and future rate fixing and known
\* and future FX fixing.
C28_AmountReadsDeclaredStates ==
    InfoCreated /\ AmountEvaluated =>
        /\ evaluation.error = ""
        /\ \A slot \in evaluation.reads :
               /\ slot[1] < Len(descriptor.simulationTimes)
               /\ slot[2] < Len(descriptor.modelIndices[slot[1] + 1])
               /\ descriptor.modelIndices[slot[1] + 1][slot[2] + 1][1] = ReadAs(slot)


(* ------------------------------- C29 ----------------------------------- *)

\* the amount of a capped floored Ibor or CMS coupon was computed
CapFlooredEvaluated ==
    /\ InfoCreated /\ AmountEvaluated /\ evaluation.error = ""
    /\ IsCapFloored /\ Terminal.kind \in FixingKinds

\* the notional the rate is applied to
NotionalUsed ==
    IF cashflow.kind = "FloatingRateFXLinkedNotionalCoupon" THEN cashflow.foreignAmount
    ELSE Terminal.nominal

\* the numerator of the FX fixing the amount is converted with
FxNumeratorUsed ==
    IF cashflow.kind # "FloatingRateFXLinkedNotionalCoupon" THEN 1
    ELSE IF cashflow.fxFixingDate <= today_ THEN FxIndexFixing
    ELSE FxSource(evaluation.states, 1, cashflow.fxSourceCcyIdx)

\* C29: for capped floored Ibor and CMS coupons the effective rate is
\* swaplet + floorlet - caplet, with swaplet = gearing * fixing + spread (0 for a
\* naked option), floorlet = gearing * max(floor - fixing, 0) if a floor is set
\* and caplet = gearing * max(fixing - cap, 0) if a cap is set; for a naked
\* option with no floor set the caplet is added instead.
C29_CapFloorEffectiveRate ==
    CapFlooredEvaluated =>
        evaluation.num =
            NotionalUsed * Terminal.accrualPeriod * FxNumeratorUsed
            * (IF IsNaked /\ FloorOf = Null
               THEN SwapletRate + FloorletRate + CapletRate
               ELSE SwapletRate + FloorletRate - CapletRate)

\* a naked option with a cap and no floor on a CMS coupon whose simulated fixing
\* lies above the cap: the amount is that of the caplet, and positive
C29_Witness ==
    /\ CapFlooredEvaluated
    /\ cashflow.kind = "StrippedCappedFlooredCoupon"
    /\ Terminal.kind = "CmsCoupon"
    /\ CapOf # Null /\ FloorOf = Null
    /\ Terminal.fixingDate > today_
    /\ CapletRate > 0
    /\ evaluation.num = CapletRate


(* ------------------------------- C30 ----------------------------------- *)

\* the exercise time at which path p exercised: the first one with a true indicator
ExercisedAtTime(p) == SetMin({j \in 1..NumEx : Indicator(j, p)})

\* the k-th valuation time lies between the exercise time at which path p
\* exercised and the next exercise time after it
InExercisePeriod(k, p) == ExBefore(k) = ExercisedAtTime(p)

\* C30: for a path on the exercised branch of the replay the value taken at a
\* valuation time is the exercise-into regression if the valuation time lies
\* between the exercise time at which the path exercised and the next exercise
\* time after it, and the dirty value regression at the valuation times from
\* that next exercise time on, for any number of exercise times.
C30_ExercisedBranchValue ==
    ExerciseCallOk =>
        \A p \in Samples : \A k \in 1..NumXva :
            (WasExercisedAt(k, p) /\ ~AccountedBefore(k, p)) =>
                ResultAt(k, p) =
                    Floor0(IF InExercisePeriod(k, p) THEN ExIntoAt(k, p) ELSE DirtyAt(k, p))


(* ------------------------------- C31 ----------------------------------- *)

\* the indicators a run that is not sticky records for the given states
RecordedBy(effPaths) ==
    ExerciseLoop(SortedSeq(exerciseTimes_), 0, effPaths, FreshIndicators)

\* the result entry of the k-th valuation time on path p that follows from the
\* indicators ex at the states of the last call
WasExercisedIn(ex, k, p) == \E j \in 1..ExBefore(k) : ex[j + 1][p]
ValueFrom(ex, k, p) ==
    Floor0(IF ~WasExercisedIn(ex, k, p) THEN OptionAt(k, p)
           ELSE IF settlement_ = "Cash" /\ \E i \in 1..(k - 1) : WasExercisedIn(ex, i, p) THEN 0
           ELSE IF ex[ExBefore(k) + 1][p] THEN ExIntoAt(k, p)
           ELSE DirtyAt(k, p))

\* C31: a sticky rerun computes its result from the indicators recorded by the
\* most recent run that was not sticky on the same calculator, whichever states
\* that run was given.
C31_StickyUsesLatestIndicators ==
    (ExerciseCallOk /\ call.sticky /\ remembered # NoRun) =>
        /\ exercised_ = RecordedBy(remembered.effPaths)
        /\ \A p \in Samples : \A k \in 1..NumXva :
               ResultAt(k, p) = ValueFrom(RecordedBy(remembered.effPaths), k, p)

\* a sticky rerun after a primary run and an interleaved run on other states that
\* recorded other indicators: the rerun's result is not what the primary run's
\* indicators give
C31_Witness ==
    /\ ExerciseCallOk /\ call.sticky /\ remembered # NoRun
    /\ remembered.primary # << >>
    /\ remembered.primary # RecordedBy(remembered.effPaths)
    /\ \E p \in Samples : \E k \in 1..NumXva :
           ResultAt(k, p) # ValueFrom(remembered.primary, k, p)


(* ------------------------------- C32 ----------------------------------- *)

\* the call c passed the checks on its arguments and, the calculator having
\* exercise times, went on to the loop that populates the result
ReachedResultLoop(c) ==
    /\ exerciseTimes_ # {}
    /\ c.numPaths > 0 /\ Len(c.pathTimes) = c.numPaths
    /\ ~(c.sticky /\ c.isRelevantTime[1])
    /\ NumFlagged(c) = NumXva

\* the values exerciseCounter takes where the loop reads exercised_[exerciseCounter]:
\* at every exercise time and at every valuation time
IndicesRead ==
    {Cardinality({e \in exerciseTimes_ : e <= t}) : t \in exerciseXvaTimes_}

\* C32: with exercise times, the loop that populates the result reads the
\* indicator at index k only if the stored indicators have more than k entries:
\* they have number of exercise times + 1 entries, also in a sticky run that no
\* run that was not sticky preceded.
C32_IndicatorsReadExist ==
    [][(CallMade /\ ReachedResultLoop(call')) =>
          /\ Len(exercised_') = NumEx + 1
          /\ \A k \in IndicesRead : Len(exercised_') > k]_vars


(* ------------------------------- C33 ----------------------------------- *)

\* the values of timeIndex at which the call c stores an entry of effPaths: none
\* if a check before or inside the loop over the path times fails first, else one
\* per flagged time
PositionsStored(c) ==
    IF c.numPaths = 0 \/ Len(c.pathTimes) # c.numPaths \/ (c.sticky /\ c.isRelevantTime[1])
    THEN {}
    ELSE 0..(NumFlagged(c) - 1)

\* C33: no call stores an effective-path entry at a position greater than or
\* equal to the number of valuation times; a mask that flags more times than
\* there are valuation times is rejected with an error before such a slot is
\* written.
C33_NoStoreBeyondValuationTimes ==
    [][CallMade =>
          /\ \A k \in PositionsStored(call') : k < NumXva
          /\ NumFlagged(call') > NumXva =>
                 (call'.status = "error" /\ call'.error # "effPaths index out of range")]_vars


(* ------------------------------- C34 ----------------------------------- *)

\* an exercise schedule none of whose dates lies after the reference date
ScheduleWithoutFutureDate ==
    exercise_ # NoExercise /\ \A d \in exercise_.dates : d <= today_

\* C34: exercise dates on or before the reference date are ignored, and an
\* instrument whose exercise schedule has no date after the reference date gets
\* the reference date value of an instrument without exercise schedule, the
\* underlying value, which is also entry 0 of every replay result; its replay
\* returns the dirty value regressions.
C34_ScheduleWithoutFutureDate ==
    CalculateOk =>
        /\ exercise_ # NoExercise =>
               exerciseTimes_ = {time(d) : d \in {e \in exercise_.dates : e > today_}}
        /\ ScheduleWithoutFutureDate =>
               /\ exerciseTimes_ = {}
               /\ resultValue_ = resultUnderlyingNpv_
               /\ \A m \in DOMAIN walk.steps :
                      coeffsUndDirty_[walk.steps[m].counter + 1] = DirtyRegression(m)


(* ------------------------------- C35 ----------------------------------- *)

\* the value of the exercised branch at the k-th valuation time on path p
ExercisedBranchAt(k, p) == Floor0(IF AccountedBefore(k, p) THEN 0 ELSE ExercisedAt(k, p))

\* C35: with exercise times, once the result of a path at a valuation time is
\* taken from the exercised branch, its result at every later valuation time of
\* the same replay is taken from the exercised branch too, never from the option
\* value regression.
C35_WasExercisedMonotone ==
    ExerciseCallOk =>
        \A p \in Samples : \A i, k \in 1..NumXva :
            (i < k /\ WasExercisedAt(i, p)) => ResultAt(k, p) = ExercisedBranchAt(k, p)

\* a path exercised before the first of two valuation times whose indicator at
\* the later exercise time is false: the second entry is the exercised value,
\* which is not the option value
C35_Witness ==
    /\ ExerciseCallOk /\ NumXva = 2 /\ settlement_ = "Physical"
    /\ \E p \in Samples :
           /\ WasExercisedAt(1, p)
           /\ ExBefore(2) > ExBefore(1) /\ ~ExercisedAtLatest(2, p)
           /\ ResultAt(2, p) = ExercisedBranchAt(2, p)
           /\ ResultAt(2, p) # Floor0(OptionAt(2, p))


(* ------------------------------- C36 ----------------------------------- *)

\* the exercise times later than every valuation time, by their position
LateExercises == {j \in 1..NumEx : \A u \in xvaTimes_ : ExTime(j) > u}

\* indicator tables that differ from the stored one at most at the late exercise times
SameUpToLate ==
    {g \in AllIndicators : \A j \in 0..NumEx : j \notin LateExercises => g[j + 1] = exercised_[j + 1]}

\* C36: in a run that is not sticky, an exercise time later than every valuation
\* time has a false indicator on every path, as has every exercise time after it,
\* and the result does not depend on the indicators of these exercise times.
C36_LateExerciseNeverExercised ==
    FreshRunOk =>
        /\ \A j \in LateExercises : \A i \in j..NumEx : \A p \in Samples : ~Indicator(i, p)
        /\ \A g \in SameUpToLate : result = PopulateResult(call.effPaths, g)

\* a path exercised at an exercise time before the valuation time, with two
\* exercise times after the valuation time
C36_Witness ==
    /\ FreshRunOk /\ Cardinality(LateExercises) = 2 /\ NumEx = 3
    /\ \E p \in Samples : Indicator(1, p) /\ ResultAt(NumXva, p) > 0


(* ------------------------------- C37 ----------------------------------- *)

\* the sets calculate() built from the descriptors it created
CashflowGenTimes == CalcCashflowGenTimes(cashflowInfo)
SimulationTimeGrid == CashflowGenTimes \cup CalcExerciseTimes \cup CalcXvaTimes

\* calculate() created the descriptors of all alive cash flows and built the grid
GridBuilt ==
    /\ engine \in {"done", "time not found in simulation times", "out of range"}

\* C37: during calibration no lookup of a time misses: the pay time of every
\* alive descriptor and each of its simulation times other than 0 is in the
\* simulation time grid, as is every exercise and valuation time; 0 is not in the
\* cash flow generation set; a simulation time 0 is served from the initial
\* state of the model.
C37_NoLookupMisses ==
    GridBuilt =>
        /\ engine # "time not found in simulation times"
        /\ \A i \in DOMAIN cashflowInfo :
               /\ cashflowInfo[i].payTime \in SimulationTimeGrid
               /\ \A k \in DOMAIN cashflowInfo[i].simulationTimes :
                      cashflowInfo[i].simulationTimes[k] # 0 =>
                          cashflowInfo[i].simulationTimes[k] \in SimulationTimeGrid
        /\ CalcExerciseTimes \cup CalcXvaTimes \subseteq SimulationTimeGrid
        /\ 0 \notin CashflowGenTimes
        /\ \A l \in walk.lookups :
               /\ l.from = "simulationTimes" => l.time \in SimulationTimeGrid
               /\ l.from = "initialValues" <=> (l.time = 0 /\ l # [time |-> 0, from |-> "simulationTimes"])


(* ------------------------------- C38 ----------------------------------- *)

\* the step of the walk that visited the grid time t
StepAt(t) == CHOOSE m \in DOMAIN walk.steps : walk.steps[m].t = t

\* the coefficients the walk fitted at step m
FittedAt(table, m) ==
    CASE table = "UndDirty" -> DirtyRegression(m)
      [] table = "UndExInto" ->
             regressionCoefficients(walk.steps[m].pathValueUndExInto, AllPaths)
      [] table = "ContinuationValue" ->
             regressionCoefficients(walk.steps[m].optionBefore,
                                    [p \in CalSamples |-> walk.steps[m].exerciseValue[p] > 0])
      [] table = "Option" -> regressionCoefficients(walk.steps[m].pathValueOption, AllPaths)

CoefficientTable(table) ==
    CASE table = "UndDirty" -> coeffsUndDirty_
      [] table = "UndExInto" -> coeffsUndExInto_
      [] table = "ContinuationValue" -> coeffsContinuationValue_
      [] table = "Option" -> coeffsOption_

\* the coefficient vectors a successful call evaluates, each with the time it is
\* evaluated for
CoefficientsRead(stickyCloseOutRun) ==
    IF exerciseTimes_ = {}
    THEN {<< "UndDirty", t >> : t \in xvaTimes_}
    ELSE (IF stickyCloseOutRun THEN {}
          ELSE {<< table, t >> : table \in {"UndExInto", "ContinuationValue"},
                                t \in {u \in exerciseTimes_ : \E x \in xvaTimes_ : x >= u}})
         \cup {<< table, t >> : table \in {"Option", "UndExInto", "UndDirty"}, t \in xvaTimes_}

\* C38: the calibration visits every time of the grid of exercise and valuation
\* times once, latest first, and stores what it fits at a time at the rank of that
\* time in the grid; every coefficient vector a replay evaluates for a time is the
\* one fitted for that time, and no replay of a calculator built by calculate()
\* fails with a time not found.
C38_CoefficientsReadWereFitted ==
    CalculateOk =>
        /\ Len(walk.steps) = Cardinality(exerciseXvaTimes_)
        /\ {walk.steps[m].t : m \in DOMAIN walk.steps} = exerciseXvaTimes_
        /\ \A m \in DOMAIN walk.steps :
               /\ walk.steps[m].counter = Rank(walk.steps[m].t, exerciseXvaTimes_)
               /\ m > 1 => walk.steps[m - 1].t > walk.steps[m].t
        /\ call.error \notin {"xva time not found in exerciseXvaTimes",
                              "exercise time not found in exerciseXvaTimes"}
        /\ CallOk =>
               \A r \in CoefficientsRead(call.sticky) :
                   /\ Populated(CoefficientTable(r[1])[TableRank(r[2])])
                   /\ CoefficientTable(r[1])[TableRank(r[2])] = FittedAt(r[1], StepAt(r[2]))

\* the replay of a calibrated calculator determined the exercise at an exercise
\* time that is no valuation time and valued the path at a later valuation time
C38_Witness ==
    /\ CalculateOk /\ FreshRunOk
    /\ \E t \in exerciseTimes_ \ xvaTimes_ : \E x \in xvaTimes_ \ exerciseTimes_ :
           /\ t < x
           /\ coeffsUndExInto_[TableRank(t)] # << 0, 0 >>
           /\ coeffsUndDirty_[TableRank(x)] # << 0, 0 >>
           /\ coeffsUndExInto_[TableRank(t)] # coeffsUndExInto_[TableRank(x)]
    /\ \E p \in Samples : exercised_[2][p]


(* ------------------------------- C39 ----------------------------------- *)

\* cash flow i was added to pathValueUndDirty, or to pathValueUndExInto, when the
\* regressions of step m are fitted
PartOfDirtyValue(i, m) == walk.steps[m].cfStatus[i] \in {"cached", "done"}
PartOfExerciseIntoValue(i, m) == walk.steps[m].cfStatus[i] = "done"

IsCoupon(i) == FlowOf(cashflowInfo[i]).kind \in CouponKinds
AccrualStartTime(i) == time(FlowOf(cashflowInfo[i]).accrualStartDate)

\* C39: at a time t of the backward walk, a coupon whose accrual starts at t is
\* part of the exercise-into value; a cash flow that is no coupon and is paid at
\* t is part of neither the dirty nor the exercise-into value; a coupon whose
\* accrual starts before t and that is paid after t is part of the dirty value
\* and not of the exercise-into value.  The two values are the sums of the
\* deflated amounts of the cash flows that are part of them.
C39_CutoffEdgeCases ==
    CalculateOk =>
        \A m \in DOMAIN walk.steps :
            LET st == walk.steps[m]
            IN  /\ \A p \in CalSamples :
                       /\ st.pathValueUndDirty[p] =
                              SumOver({i \in DOMAIN cashflowInfo : PartOfDirtyValue(i, m)}, p)
                       /\ st.pathValueUndExInto[p] =
                              SumOver({i \in DOMAIN cashflowInfo :
                                          PartOfExerciseIntoValue(i, m)}, p)
                /\ \A i \in DOMAIN cashflowInfo :
                       /\ IsCoupon(i) /\ AccrualStartTime(i) = st.t
                              => PartOfExerciseIntoValue(i, m)
                       /\ ~IsCoupon(i) /\ cashflowInfo[i].payTime = st.t
                              => ~PartOfDirtyValue(i, m) /\ ~PartOfExerciseIntoValue(i, m)
                       /\ IsCoupon(i) /\ AccrualStartTime(i) < st.t
                          /\ cashflowInfo[i].payTime > st.t
                              => PartOfDirtyValue(i, m) /\ ~PartOfExerciseIntoValue(i, m)

\* at one exercise time a coupon starts to accrue and a cash flow that is no
\* coupon is paid; at a later exercise time the coupon is still to be paid
C39_Witness ==
    /\ CalculateOk
    /\ \E m, n \in DOMAIN walk.steps : \E i, j \in DOMAIN cashflowInfo :
           /\ walk.steps[m].isExerciseTime /\ walk.steps[n].isExerciseTime
           /\ IsCoupon(i) /\ AccrualStartTime(i) = walk.steps[m].t
           /\ ~IsCoupon(j) /\ cashflowInfo[j].payTime = walk.steps[m].t
           /\ AccrualStartTime(i) < walk.steps[n].t
           /\ cashflowInfo[i].payTime > walk.steps[n].t
           /\ \E p \in CalSamples :
                  /\ walk.steps[m].pathValueUndExInto[p] # 0
                  /\ walk.steps[n].pathValueUndDirty[p] # walk.steps[n].pathValueUndExInto[p]


(* ------------------------------- C40 ----------------------------------- *)

\* the exercise times at which the last call interpolated the state
InterpolatedAt == {t \in exerciseTimes_ : \E x \in xvaTimes_ : x >= t}

\* the numerators of alpha1 and alpha2 over the denominator time2 - time1
Alpha1(t) == time2(t) - t
Alpha2(t) == t - time1(t)

=============================================================================
